---- MODULE Spec2Model ----
(***************************************************************************)
(* CLISend: the dispatcher (server.py), the Read Worker (workers/reader.py) *)
(* and the Write Worker (workers/writer.py) over one shared directory tree. *)
(*                                                                          *)
(* A string is a sequence of one-character strings, so that                 *)
(* str.startswith, str.lstrip and os.path.normpath work on characters as    *)
(* they do in the program.  The tree holds no symbolic link.                *)
(***************************************************************************)
EXTENDS Naturals, Integers, Sequences, FiniteSets, TLC

\* ------------------------------------------------------------------ bounds
\* Longest client path explored by SpecWorkers.
MaxPathLen == 5
\* Commands the clients of Spec send altogether.
MaxOps == 3

\* ----------------------------------------------------------------- strings
Chars == {"/", ".", "s", "x"}

\* Code-point order of the characters (Python compares str by code point).
CharOrd(ch) ==
    CASE ch = "." -> 46
      [] ch = "/" -> 47
      [] ch = "s" -> 115
      [] ch = "x" -> 120

RECURSIVE StrLess(_, _)
StrLess(a, b) ==
    IF a = <<>> THEN b # <<>>
    ELSE IF b = <<>> THEN FALSE
    ELSE IF Head(a) = Head(b) THEN StrLess(Tail(a), Tail(b))
    ELSE CharOrd(Head(a)) < CharOrd(Head(b))

\* str.startswith
StartsWith(s, prefix) ==
    /\ Len(prefix) <= Len(s)
    /\ SubSeq(s, 1, Len(prefix)) = prefix

\* str.lstrip("/")
RECURSIVE LStrip(_)
LStrip(s) ==
    IF s # <<>> /\ Head(s) = "/" THEN LStrip(Tail(s)) ELSE s

\* str.rstrip("/")
RECURSIVE RStrip(_)
RStrip(s) ==
    IF s # <<>> /\ s[Len(s)] = "/" THEN RStrip(SubSeq(s, 1, Len(s) - 1)) ELSE s

\* str.split("/")
RECURSIVE SplitAcc(_, _, _)
SplitAcc(s, cur, acc) ==
    IF s = <<>> THEN Append(acc, cur)
    ELSE IF Head(s) = "/" THEN SplitAcc(Tail(s), <<>>, Append(acc, cur))
    ELSE SplitAcc(Tail(s), Append(cur, Head(s)), acc)

Split(s) == SplitAcc(s, <<>>, <<>>)

\* "/".join(comps)
RECURSIVE JoinComps(_)
JoinComps(comps) ==
    IF comps = <<>> THEN <<>>
    ELSE IF Len(comps) = 1 THEN comps[1]
    ELSE comps[1] \o <<"/">> \o JoinComps(Tail(comps))

\* os.path.join(a, b) (posixpath)
PathJoin(a, b) ==
    IF b # <<>> /\ Head(b) = "/" THEN b
    ELSE IF a = <<>> \/ a[Len(a)] = "/" THEN a \o b
    ELSE a \o <<"/">> \o b

\* The loop of posixpath.normpath over the components of an absolute path:
\* '' and '.' are skipped, '..' pops the last component kept (and is dropped
\* at the root).
RECURSIVE NormComps(_, _)
NormComps(comps, new) ==
    IF comps = <<>> THEN new
    ELSE LET c == Head(comps)
         IN IF c = <<>> \/ c = <<".">> THEN NormComps(Tail(comps), new)
            ELSE IF c # <<".", ".">> THEN NormComps(Tail(comps), Append(new, c))
            ELSE IF new # <<>> THEN NormComps(Tail(comps), SubSeq(new, 1, Len(new) - 1))
            ELSE NormComps(Tail(comps), new)

\* os.path.normpath of a path that starts with one "/"
NormPath(s) == <<"/">> \o JoinComps(NormComps(Split(s), <<>>))

\* os.path.realpath: the tree holds no symbolic link, so the canonical path
\* is the normalized absolute path.
RealPath(s) == NormPath(s)

\* os.path.dirname (posixpath)
RECURSIVE LastSep(_)
LastSep(s) ==
    IF s = <<>> THEN 0
    ELSE IF s[Len(s)] = "/" THEN Len(s)
    ELSE LastSep(SubSeq(s, 1, Len(s) - 1))

DirName(s) ==
    LET head == SubSeq(s, 1, LastSep(s))
    IN IF head # <<>> /\ RStrip(head) # <<>> THEN RStrip(head) ELSE head

BaseName(s) == SubSeq(s, LastSep(s) + 1, Len(s))

\* ------------------------------------------------------------- shared tree
\* shared_folder (server.py, set in main from --folder): "/s".
SharedFolder == <<"/", "s">>

Dir == [kind |-> "dir", data |-> <<>>]
File(d) == [kind |-> "file", data |-> d]

\* The tree at start: the shared root /s with the file /s/x, and beside the
\* root the file /sx and the directory /ss, whose names start with "s".
InitTree ==
    (<<"/">> :> Dir) @@
    (<<"/", "s">> :> Dir) @@
    (<<"/", "s", "/", "x">> :> File(<<0>>)) @@
    (<<"/", "s", "x">> :> File(<<7>>)) @@
    (<<"/", "s", "s">> :> Dir)

Exists(t, p) == p \in DOMAIN t
IsDir(t, p) == p \in DOMAIN t /\ t[p].kind = "dir"
IsFile(t, p) == p \in DOMAIN t /\ t[p].kind = "file"

\* p is d or lies under the directory d, component by component.
Under(d, p) ==
    \/ p = d
    \/ d = <<"/">>
    \/ StartsWith(p, d \o <<"/">>)

\* The proper ancestors of p, and p itself.
RECURSIVE Ancestors(_)
Ancestors(p) ==
    IF p = <<"/">> THEN {p} ELSE {p} \cup Ancestors(DirName(p))

Restrict(t, keep) == [p \in keep |-> t[p]]

\* --------------------------------------------------------------- state
VARIABLES
    fs,         \* the directory tree: canonical path -> Dir or File(bytes)
    denials,    \* OS permission failures met so far
    readReq,    \* read_request_q
    readResp,   \* read_response_q
    writeReq,   \* write_request_q
    writeResp,  \* write_response_q
    rprog,      \* the request the Read Worker is executing, with its position
    wprog,      \* the request the Write Worker is executing, with its position
    reqOf,      \* history: correlation id -> the request enqueued with it
    wlog,       \* history: the Write Worker's filesystem mutations, in order
    obs,        \* history: correlation id -> what the Read Worker's steps saw
    cpc,        \* connection -> where its handle_client coroutine stands
    ccmd,       \* connection -> the command it is processing
    cid,        \* connection -> req_id of its send_to_worker call
    hist,       \* history: connection -> the commands answered, with the results
    pending,    \* pending_requests: req_id -> the future
    nextId,     \* the next fresh uuid
    nops,       \* commands sent so far
    pollQ,      \* poll_response_queues: the queue being polled
    nres,       \* history: req_id -> number of results set on its future
    lost,       \* history: results taken from a queue that resolved nothing
    nput,       \* history: req_id -> number of results a worker put for it
    rstat,      \* the Read Worker process: running, exited or terminated
    wstat,      \* the Write Worker process: running, exited or terminated
    sent,       \* connection -> the command records its client has sent
    rpos,       \* connection -> how many of them handle_client has read
    hello,      \* connection -> the handshake record its client has sent
    eof,        \* connection -> the client has closed its side
    out,        \* connection -> what handle_client has written on the socket
    stop,       \* stop_workers: not called, or joining the workers
    wire,       \* a byte stream: the bytes written and not yet read
    wclosed,    \* the writing side of the stream is closed
    txlog,      \* history: the frames written on the stream
    rxlog,      \* history: what each async_recv_message on the stream returned
    clients,    \* clients: the client_id of every live session
    audit,      \* history: connection -> the events log_event has put on log_q
    reset,      \* connection -> the peer has reset it, and the transport knows
    rawRead     \* history: connection -> raw bytes readexactly has consumed

procVars == <<nput, rstat, wstat>>
sessVars == <<sent, rpos, hello, eof, out, stop>>
workerVars == <<fs, denials, readReq, readResp, writeReq, writeResp, rprog, wprog, wlog, obs,
                nput, rstat, wstat>>
dispVars == <<cpc, ccmd, cid, hist, pending, nextId, nops, pollQ, nres, lost,
              sent, rpos, hello, eof, out, stop>>
vars == <<fs, denials, readReq, readResp, writeReq, writeResp, rprog, wprog, reqOf, wlog, obs,
          cpc, ccmd, cid, hist, pending, nextId, nops, pollQ, nres, lost,
          nput, rstat, wstat, sent, rpos, hello, eof, out, stop,
          wire, wclosed, txlog, rxlog, clients, audit, reset, rawRead>>
wireVars == <<wire, wclosed, txlog, rxlog>>
connVars == <<clients, audit, reset, rawRead>>

\* OS permission failures (PermissionError) injected in one run.
MaxDenials == 1

Permits == IF denials < MaxDenials THEN {TRUE, FALSE} ELSE {TRUE}

\* A worker result; the worker loop adds "id" and "action".
Result(req, status, msg) ==
    [id |-> req.id, action |-> req.action, status |-> status, msg |-> msg,
     data |-> <<>>, size |-> 0, path |-> <<>>, entries |-> <<>>]

\* target = os.path.normpath(os.path.join(shared_folder, rel_path.lstrip("/")))
Target(relPath) == NormPath(PathJoin(SharedFolder, LStrip(relPath)))

\* os.path.realpath(target).startswith(os.path.realpath(shared_folder))
Allowed(target) == StartsWith(RealPath(target), RealPath(SharedFolder))

\* _list_files: if rel_path in ("/", "", "."): rel_path = ""
ListRel(relPath) ==
    IF relPath \in {<<"/">>, <<>>, <<".">>} THEN <<>> ELSE relPath

\* The names in directory d.
Children(t, d) ==
    {BaseName(p) : p \in {q \in DOMAIN t : q # d /\ q # <<"/">> /\ DirName(q) = d}}

\* sorted(names)
RECURSIVE SortedSeq(_)
SortedSeq(names) ==
    IF names = {} THEN <<>>
    ELSE LET m == CHOOSE n \in names : \A o \in names \ {n} : StrLess(n, o)
         IN <<m>> \o SortedSeq(names \ {m})

\* The entries with no size read.
EntriesUnsized(t, d) ==
    LET names == SortedSeq(Children(t, d))
    IN [i \in 1..Len(names) |->
          [name |-> names[i], is_dir |-> IsDir(t, PathJoin(d, names[i])), size |-> 0]]

\* The entries _list_files builds for directory d.
Entries(t, d) ==
    LET names == SortedSeq(Children(t, d))
    IN [i \in 1..Len(names) |->
          LET full == PathJoin(d, names[i])
          IN [name |-> names[i],
              is_dir |-> IsDir(t, full),
              size |-> IF IsFile(t, full) THEN Len(t[full].data) ELSE 0]]

\* os.makedirs(d, exist_ok=True): fails when d or one of its ancestors is a
\* file, and otherwise creates every missing directory down to d.
MakeDirsFails(t, d) == \E a \in Ancestors(d) : IsFile(t, a)
MakeDirs(t, d) ==
    [p \in DOMAIN t \cup Ancestors(d) |-> IF p \in DOMAIN t THEN t[p] ELSE Dir]

\* A removal that leaves the file in place.
RemoveNothing(t, p) == t

\* os.remove / shutil.rmtree
RemoveFile(t, p) == Restrict(t, DOMAIN t \ {p})
RemoveTree(t, d) == Restrict(t, {p \in DOMAIN t : ~Under(d, p)})

\* A file opened without truncating it.
OpenKeep(t, p) == [q \in DOMAIN t \cup {p} |-> IF q \in DOMAIN t THEN t[q] ELSE File(<<>>)]

\* open(target, "wb"): the file is created, or truncated to no byte.
OpenWB(t, p) == [q \in DOMAIN t \cup {p} |-> IF q = p THEN File(<<>>) ELSE t[q]]

\* A write that stops one byte short.
WriteShort(t, p, data) ==
    IF ~IsFile(t, p) THEN t
    ELSE [t EXCEPT ![p] = File(SubSeq(data, 1, Len(data) - 1))]

\* f.write(data) from position 0 of the file opened by OpenWB.
WriteData(t, p, data) ==
    IF ~IsFile(t, p) THEN t
    ELSE [t EXCEPT ![p] = File(data \o SubSeq(t[p].data, Len(data) + 1, Len(t[p].data)))]

\* ------------------------------------------------------------ Write Worker
\* None, the value stop_workers puts on a request queue.
Sentinel == [id |-> 0, action |-> "None", path |-> <<>>, data |-> <<>>]

NoNode == [kind |-> "none", data |-> <<>>]
NodeAt(t, p) == IF p \in DOMAIN t THEN t[p] ELSE NoNode

\* The request a worker is executing: the request, the step it is at and the
\* locals of the function executing it.
Op(req, pc, target, buf, size) ==
    [id |-> req.id, action |-> req.action, path |-> req.path, data |-> req.data,
     pc |-> pc, target |-> target, buf |-> buf, size |-> size]

\* One mutation of the tree: who made it, at which step, the paths it
\* created, changed or removed, and what was at the target before.
Mutation(op, step, touched, old) ==
    [id |-> op.id, step |-> step, touched |-> touched, old |-> old]

\* History: the number of mutations made before the first and before the
\* latest step of the request.
Started(op) ==
    LET was == IF op.id \in DOMAIN obs
               THEN obs[op.id]
               ELSE [first |-> Len(wlog), last |-> Len(wlog), inCut |-> FALSE]
    IN (op.id :> [was EXCEPT !.last = Len(wlog)]) @@ obs

\* The writer's step: the tree, the operation in progress (or none), the
\* results put on write_response_q, and the mutations made.
\* History: one more result put for the request of each result in resps.
Counted(resps) ==
    IF resps = <<>> THEN nput
    ELSE LET id == resps[1].id
         IN (id :> (IF id \in DOMAIN nput THEN nput[id] + 1 ELSE 1)) @@ nput

WriterEffect(op, newfs, newden, newprog, resps, muts) ==
    /\ obs' = Started(op)
    /\ nput' = Counted(resps)
    /\ fs' = newfs
    /\ denials' = newden
    /\ wprog' = newprog
    /\ writeResp' = writeResp \o resps
    /\ wlog' = wlog \o muts

\* An operation that ends without a result being put.
WriterDrop(op, res, newfs, newden, muts) ==
    WriterEffect(op, newfs, newden, wprog \ {op}, <<>>, muts)

\* result["id"] = req_id; result["action"] = action; response_queue.put(result):
\* the operation is over.
WriterReply(op, res, newfs, newden, muts) ==
    WriterEffect(op, newfs, newden, wprog \ {op}, <<res>>, muts)

WriterGoto(op, pc, buf, newfs, newden, muts) ==
    WriterEffect(op, newfs, newden,
                 (wprog \ {op}) \cup {[op EXCEPT !.pc = pc, !.buf = buf]}, <<>>, muts)

\* _save_file up to os.makedirs: the sandbox test, then the intermediate
\* directories.  An exception of os.makedirs is raised outside the try block
\* and reaches the worker loop ("Error interno").
save_file_makedirs(op) ==
    LET dir == DirName(op.target)
        made == Ancestors(dir) \ DOMAIN fs
    IN IF ~Allowed(op.target)
       THEN WriterReply(op, Result(op, "error", "sandbox"), fs, denials, <<>>)
       ELSE IF MakeDirsFails(fs, dir)
       THEN WriterReply(op, Result(op, "error", "internal"), fs, denials, <<>>)
       ELSE WriterGoto(op, "open", <<>>, MakeDirs(fs, dir), denials,
                       IF made = {} THEN <<>>
                       ELSE <<Mutation(op, "makedirs", made, NoNode)>>)

\* open(target, "wb")
save_file_open(op) ==
    IF IsDir(fs, op.target)
    THEN WriterReply(op, Result(op, "error", "oserror"), fs, denials, <<>>)
    ELSE \E permitted \in Permits :
           IF ~permitted
           THEN WriterReply(op, Result(op, "error", "permission"), fs, denials + 1, <<>>)
           ELSE WriterGoto(op, "write", <<>>, OpenWB(fs, op.target), denials,
                           <<Mutation(op, "truncate", {op.target}, NodeAt(fs, op.target))>>)

\* f.write(data), the file is closed, the result is returned.
save_file_write(op) ==
    WriterReply(op, Result(op, "ok", "saved"), WriteData(fs, op.target, op.data), denials,
                <<Mutation(op, "write", {op.target}, NodeAt(fs, op.target))>>)

\* _delete_file up to os.path.exists
delete_file_check(op) ==
    IF ~Allowed(op.target)
    THEN WriterReply(op, Result(op, "error", "sandbox"), fs, denials, <<>>)
    ELSE IF ~Exists(fs, op.target)
    THEN WriterReply(op, Result(op, "error", "notfound"), fs, denials, <<>>)
    ELSE WriterGoto(op, "remove", <<>>, fs, denials, <<>>)

\* shutil.rmtree(target) for a directory, os.remove(target) otherwise
delete_file_remove(op) ==
    IF ~Exists(fs, op.target)
    THEN WriterReply(op, Result(op, "error", "oserror"), fs, denials, <<>>)
    ELSE \E permitted \in Permits :
           IF ~permitted
           THEN WriterReply(op, Result(op, "error", "permission"), fs, denials + 1, <<>>)
           ELSE IF IsDir(fs, op.target)
           THEN WriterReply(op, Result(op, "ok", "deleted_dir"),
                            RemoveTree(fs, op.target), denials,
                            <<Mutation(op, "rmtree",
                                       {p \in DOMAIN fs : Under(op.target, p)},
                                       fs[op.target])>>)
           ELSE WriterReply(op, Result(op, "ok", "deleted_file"),
                            RemoveFile(fs, op.target), denials,
                            <<Mutation(op, "remove", {op.target}, fs[op.target])>>)

\* _cut_file up to data = f.read(): the sandbox test, os.path.isfile, the read.
cut_file_read(op) ==
    IF ~Allowed(op.target)
    THEN WriterReply(op, Result(op, "error", "sandbox"), fs, denials, <<>>)
    ELSE IF ~IsFile(fs, op.target)
    THEN WriterReply(op, Result(op, "error", "notfound"), fs, denials, <<>>)
    ELSE \E permitted \in Permits :
           IF ~permitted
           THEN WriterReply(op, Result(op, "error", "permission"), fs, denials + 1, <<>>)
           ELSE WriterGoto(op, "remove", fs[op.target].data, fs, denials, <<>>)

\* The file removed and an error answered all the same.
cut_file_remove_anyway(op) ==
    IF ~IsFile(fs, op.target)
    THEN WriterReply(op, Result(op, "error", "oserror"), fs, denials, <<>>)
    ELSE WriterReply(op, Result(op, "error", "permission"),
                     RemoveFile(fs, op.target), denials,
                     <<Mutation(op, "remove", {op.target}, fs[op.target])>>)

\* size = len(data); os.remove(target); the result carries data, size, path.
cut_file_remove(op) ==
    IF ~IsFile(fs, op.target)
    THEN WriterReply(op, Result(op, "error", "oserror"), fs, denials, <<>>)
    ELSE \E permitted \in Permits :
           IF ~permitted
           THEN WriterReply(op, Result(op, "error", "permission"), fs, denials + 1, <<>>)
           ELSE WriterReply(op,
                            [Result(op, "ok", "cut") EXCEPT
                                !.data = op.buf, !.size = Len(op.buf),
                                !.path = LStrip(op.path)],
                            RemoveFile(fs, op.target), denials,
                            <<Mutation(op, "remove", {op.target}, fs[op.target])>>)

\* A writer that takes a request while another is in progress.
WriterMayGetAnytime == TRUE

\* writer_worker takes a request only at the top of its loop, after the
\* result of the one before has been put.
WriterMayGet == wprog = {}

\* request = request_queue.get(), then the first step of the function the
\* action selects.
writer_worker_get ==
    /\ wstat = "running"
    /\ WriterMayGet
    /\ writeReq # <<>>
    /\ writeReq' = Tail(writeReq)
    /\ LET req == Head(writeReq)
           op == Op(req, "start", Target(req.path), <<>>, 0)
       IN IF req = Sentinel
          THEN \* if request is None: break
               /\ wstat' = "exited"
               /\ UNCHANGED <<fs, denials, writeResp, wprog, wlog, obs, nput>>
          ELSE /\ wstat' = wstat
               /\ CASE req.action = "UPLOAD" -> save_file_makedirs(op)
                    [] req.action = "DELETE" -> delete_file_check(op)
                    [] req.action = "CUT" -> cut_file_read(op)
                    [] OTHER -> WriterReply(op, Result(op, "error", "unknown"),
                                            fs, denials, <<>>)
    /\ UNCHANGED <<readReq, readResp, rprog, reqOf, rstat>>
    /\ UNCHANGED dispVars
    /\ UNCHANGED wireVars
    /\ UNCHANGED connVars

\* The next filesystem step of the operation in progress.
writer_worker_step ==
    /\ wstat = "running"
    /\ \E op \in wprog :
         CASE op.action = "UPLOAD" /\ op.pc = "open" -> save_file_open(op)
           [] op.action = "UPLOAD" /\ op.pc = "write" -> save_file_write(op)
           [] op.action = "DELETE" /\ op.pc = "remove" -> delete_file_remove(op)
           [] op.action = "CUT" /\ op.pc = "remove" -> cut_file_remove(op)
    /\ UNCHANGED <<readReq, readResp, writeReq, rprog, reqOf, rstat, wstat>>
    /\ UNCHANGED dispVars
    /\ UNCHANGED wireVars
    /\ UNCHANGED connVars

\* ------------------------------------------------------------- Read Worker
\* A CUT of one of these paths has read the file and not yet removed it.
CutWindow(paths) ==
    \E w \in wprog : w.action = "CUT" /\ w.pc = "remove" /\ w.target \in paths

\* What the reader's steps saw: the number of mutations made before its first
\* and before its latest filesystem step, and whether a step looked at a file
\* that a CUT had read and not yet removed.
Observed(op, paths) ==
    LET was == IF op.id \in DOMAIN obs
               THEN obs[op.id]
               ELSE [first |-> Len(wlog), last |-> Len(wlog), inCut |-> FALSE]
    IN (op.id :> [first |-> was.first, last |-> Len(wlog),
                  inCut |-> was.inCut \/ CutWindow(paths)]) @@ obs

ReaderEffect(newden, newprog, resps, newobs) ==
    /\ denials' = newden
    /\ rprog' = newprog
    /\ readResp' = readResp \o resps
    /\ nput' = Counted(resps)
    /\ obs' = newobs

ReaderReply(op, res, newden, paths) ==
    ReaderEffect(newden, rprog \ {op}, <<res>>, Observed(op, paths))

ReaderGoto(op, pc, size, paths) ==
    ReaderEffect(denials, (rprog \ {op}) \cup {[op EXCEPT !.pc = pc, !.size = size]},
                 <<>>, Observed(op, paths))

\* _list_files up to os.path.isdir(target)
list_files_check(op) ==
    IF ~Allowed(op.target)
    THEN ReaderReply(op, Result(op, "error", "sandbox"), denials, {})
    ELSE IF ~IsDir(fs, op.target)
    THEN ReaderReply(op, Result(op, "error", "notfound"), denials, {op.target})
    ELSE ReaderGoto(op, "listdir", 0, {op.target})

\* sorted(os.listdir(target)) and the entry of each name.  An exception of
\* os.listdir reaches the worker loop ("Error interno").
list_files_listdir(op) ==
    IF ~IsDir(fs, op.target)
    THEN ReaderReply(op, Result(op, "error", "internal"), denials, {op.target})
    ELSE ReaderReply(op, [Result(op, "ok", "") EXCEPT !.entries = Entries(fs, op.target)],
                     denials,
                     {op.target} \cup {q \in DOMAIN fs : q # <<"/">> /\ DirName(q) = op.target})

\* _read_file up to os.path.isfile(target)
read_file_check(op) ==
    IF ~Allowed(op.target)
    THEN ReaderReply(op, Result(op, "error", "sandbox"), denials, {})
    ELSE IF ~IsFile(fs, op.target)
    THEN ReaderReply(op, Result(op, "error", "notfound"), denials, {op.target})
    ELSE ReaderGoto(op, "getsize", 0, {op.target})

\* size = os.path.getsize(target)
read_file_getsize(op) ==
    IF ~Exists(fs, op.target)
    THEN ReaderReply(op, Result(op, "error", "oserror"), denials, {op.target})
    ELSE ReaderGoto(op, "read", Len(fs[op.target].data), {op.target})

\* with open(target, "rb") as f: data = f.read()
read_file_read(op) ==
    IF ~IsFile(fs, op.target)
    THEN ReaderReply(op, Result(op, "error", "oserror"), denials, {op.target})
    ELSE \E permitted \in Permits :
           IF ~permitted
           THEN ReaderReply(op, Result(op, "error", "permission"), denials + 1, {op.target})
           ELSE ReaderReply(op,
                            [Result(op, "ok", "") EXCEPT
                                !.size = op.size, !.data = fs[op.target].data,
                                !.path = LStrip(op.path)],
                            denials, {op.target})

\* reader_worker takes a request only at the top of its loop.
ReaderMayGet == rprog = {}

reader_worker_get ==
    /\ rstat = "running"
    /\ ReaderMayGet
    /\ readReq # <<>>
    /\ readReq' = Tail(readReq)
    /\ LET req == Head(readReq)
       IN IF req = Sentinel
          THEN \* if request is None: break
               /\ rstat' = "exited"
               /\ UNCHANGED <<denials, readResp, rprog, obs, nput>>
          ELSE /\ rstat' = rstat
               /\ CASE req.action = "LIST" ->
                      list_files_check(Op(req, "start", Target(ListRel(req.path)), <<>>, 0))
                    [] req.action = "DOWNLOAD" ->
                      read_file_check(Op(req, "start", Target(req.path), <<>>, 0))
                    [] OTHER ->
                      ReaderReply(Op(req, "start", <<>>, <<>>, 0),
                                  Result(req, "error", "unknown"), denials, {})
    /\ UNCHANGED <<fs, writeReq, writeResp, wprog, wlog, reqOf, wstat>>
    /\ UNCHANGED dispVars
    /\ UNCHANGED wireVars
    /\ UNCHANGED connVars

reader_worker_step ==
    /\ rstat = "running"
    /\ \E op \in rprog :
         CASE op.action = "LIST" /\ op.pc = "listdir" -> list_files_listdir(op)
           [] op.action = "DOWNLOAD" /\ op.pc = "getsize" -> read_file_getsize(op)
           [] op.action = "DOWNLOAD" /\ op.pc = "read" -> read_file_read(op)
    /\ UNCHANGED <<fs, readReq, writeReq, writeResp, wprog, wlog, reqOf, rstat, wstat>>
    /\ UNCHANGED dispVars
    /\ UNCHANGED wireVars
    /\ UNCHANGED connVars

\* -------------------------------------------------- the workers on any path
\* Every string of at most n characters.
RECURSIVE Strings(_)
Strings(n) ==
    IF n = 0 THEN {<<>>}
    ELSE LET shorter == Strings(n - 1)
         IN shorter \cup {Append(t, ch) : t \in {u \in shorter : Len(u) = n - 1}, ch \in Chars}

Request(id, action, path, data) ==
    [id |-> id, action |-> action, path |-> path, data |-> data]

Connections == {"c1", "c2"}

\* A command record as its client frames it: hasPath and hasSize tell whether
\* the record carries "path" and "size"; data are the raw bytes that follow
\* it, and size is their number.
Msg(action, path, data, hasPath, hasSize) ==
    [action |-> action, path |-> path, data |-> data, size |-> Len(data),
     hasPath |-> hasPath, hasSize |-> hasSize]

NoCmd == Msg("", <<>>, <<>>, FALSE, FALSE)

\* A handshake record, with or without "name".
Hello(hasName, name) == [sent |-> TRUE, hasName |-> hasName, name |-> name]
NoHello == [sent |-> FALSE, hasName |-> FALSE, name |-> ""]

\* What log_event puts on log_q.
Event(action, path, status) == [action |-> action, path |-> path, status |-> status]

\* What handle_client writes on the socket: a control message and, after it,
\* the raw bytes.
Reply(status, msg) ==
    [status |-> status, msg |-> msg, entries |-> <<>>, path |-> <<>>, size |-> 0, raw |-> <<>>]

Welcome == Reply("ok", "welcome")
Ready == Reply("ready", "")

\* The dispatcher while no command is in progress.
DispIdle ==
    /\ ccmd = [c \in Connections |-> NoCmd]
    /\ cid = [c \in Connections |-> 0]
    /\ hist = [c \in Connections |-> <<>>]
    /\ pending = <<>>
    /\ nextId = 1
    /\ nops = 0
    /\ pollQ = "read"
    /\ nres = <<>>
    /\ lost = {}
    /\ sent = [c \in Connections |-> <<>>]
    /\ rpos = [c \in Connections |-> 0]
    /\ eof = [c \in Connections |-> FALSE]
    /\ stop = "no"
    /\ wire = <<>>
    /\ wclosed = FALSE
    /\ txlog = <<>>
    /\ rxlog = <<>>
    /\ reset = [c \in Connections |-> FALSE]
    /\ rawRead = [c \in Connections |-> 0]

\* Every connection has passed the handshake and waits for a command.
DispInit ==
    /\ DispIdle
    /\ cpc = [c \in Connections |-> "idle"]
    /\ hello = [c \in Connections |-> Hello(TRUE, "a")]
    /\ out = [c \in Connections |-> <<Welcome>>]
    /\ clients = Connections
    /\ audit = [c \in Connections |-> <<Event("CONNECT", <<>>, "ok")>>]

WorkerInit ==
    /\ fs = InitTree
    /\ denials = 0
    /\ readResp = <<>>
    /\ writeResp = <<>>
    /\ rprog = {}
    /\ wprog = {}
    /\ wlog = <<>>
    /\ obs = <<>>
    /\ nput = <<>>
    /\ rstat = "running"
    /\ wstat = "running"

\* One request, of any action on any path, waits on the queue of its worker.
InitWorkers ==
    /\ WorkerInit
    /\ DispInit
    /\ \E action \in {"LIST", "DOWNLOAD", "UPLOAD", "DELETE", "CUT"}, path \in Strings(MaxPathLen) :
         LET req == Request(1, action, path, IF action = "UPLOAD" THEN <<1>> ELSE <<>>)
         IN /\ reqOf = (1 :> req)
            /\ readReq = IF action \in {"LIST", "DOWNLOAD"} THEN <<req>> ELSE <<>>
            /\ writeReq = IF action \in {"UPLOAD", "DELETE", "CUT"} THEN <<req>> ELSE <<>>

NextWorkers ==
    \/ reader_worker_get
    \/ reader_worker_step
    \/ writer_worker_get
    \/ writer_worker_step

SpecWorkers == InitWorkers /\ [][NextWorkers]_vars

\* --------------------------------------------------------------- dispatcher
Data1 == <<1>>
Data2 == <<2, 2>>

Cmd(action, path, data) == Msg(action, path, data, TRUE, TRUE)

\* The commands a client sends: on the file x of the shared root and on the
\* root itself.
Commands ==
    {Cmd("LIST", <<"/">>, <<>>),
     Cmd("DOWNLOAD", <<"x">>, <<>>),
     Cmd("UPLOAD", <<"x">>, Data1),
     Cmd("UPLOAD", <<"x">>, Data2),
     Cmd("DELETE", <<"x">>, <<>>),
     Cmd("DELETE", <<"/">>, <<>>),
     Cmd("CUT", <<"x">>, <<>>),
     Cmd("FOO", <<"x">>, <<>>)}

\* Commands that lack "size" or "path".
Incomplete ==
    {Msg("UPLOAD", <<"x">>, <<>>, TRUE, FALSE),
     Msg("UPLOAD", <<>>, Data1, FALSE, TRUE),
     Msg("DOWNLOAD", <<>>, <<>>, FALSE, TRUE),
     Msg("DELETE", <<>>, <<>>, FALSE, TRUE),
     Msg("CUT", <<>>, <<>>, FALSE, TRUE)}

\* path = msg.get("path", "/")
PathOf(cmd) == IF cmd.hasPath THEN cmd.path ELSE <<"/">>

\* The number of raw bytes that came, whatever the record announces.
SizeArrived(cmd) == Len(cmd.data)

\* file_size = msg.get("size", 0)
SizeOf(cmd) == IF cmd.hasSize THEN cmd.size ELSE 0

\* The bytes short of one.
ReadShort(bytes, n) == SubSeq(bytes, 1, n - 1)

\* reader.readexactly(n): the first n bytes of the stream.
ReadExactly(bytes, n) == SubSeq(bytes, 1, n)

\* file_data = await reader.readexactly(file_size)
FileData(cmd) == ReadExactly(cmd.data, SizeOf(cmd))

NoResult == [id |-> 0, action |-> "", status |-> "", msg |-> "",
             data |-> <<>>, size |-> 0, path |-> <<>>, entries |-> <<>>]

\* What handle_client writes on the socket for a worker result: the control
\* message and, after it, the raw bytes.
Response(action, res) ==
    LET base == Reply(res.status, res.msg)
    IN CASE action = "LIST" -> [base EXCEPT !.entries = res.entries]
         [] action \in {"DOWNLOAD", "CUT"} ->
              IF res.status = "ok"
              THEN [base EXCEPT !.msg = "", !.path = res.path, !.size = res.size,
                                !.raw = res.data]
              ELSE [base EXCEPT !.status = "error"]
         [] OTHER -> base

\* CUT handed to read_request_q as well.
ToReaderAlso(action) == action \in {"LIST", "DOWNLOAD", "CUT"}

\* handle_client hands LIST and DOWNLOAD to read_request_q and UPLOAD, DELETE
\* and CUT to write_request_q.
ToReader(action) == action \in {"LIST", "DOWNLOAD"}

\* Every other action handed to write_request_q.
ToWriterElse(action) == ~ToReader(action)

ToWriter(action) == action \in {"UPLOAD", "DELETE", "CUT"}

\* send_to_worker up to run_in_executor: a fresh req_id, the future recorded
\* in pending_requests, the put handed to the executor.
send_to_worker(c, cmd) ==
    LET req == Request(nextId, cmd.action, PathOf(cmd), FileData(cmd))
    IN /\ nextId' = nextId + 1
       /\ reqOf' = (nextId :> req) @@ reqOf
       /\ pending' = (nextId :> [done |-> FALSE, result |-> NoResult]) @@ pending
       /\ cid' = [cid EXCEPT ![c] = nextId]
       /\ ccmd' = [ccmd EXCEPT ![c] = cmd]
       /\ cpc' = [cpc EXCEPT ![c] = "putting"]

\* A command read only while every connection is between two commands.
MayReadAlone(c) == \A d \in Connections : cpc[d] = "idle"

\* A command read while another is in progress.
MayReadAnytime(c) == cpc[c] \in {"idle", "reading", "putting", "awaiting"}

\* handle_client reads a command only at the top of its loop, after the
\* response to the one before has been written.
MayRead(c) == cpc[c] = "idle"

\* handle_client from "action = msg.get('action', '').upper()" on: the branch
\* the action selects, up to its first await on the client or on a worker.
handle_client_dispatch(c, cmd) ==
    IF ToReader(cmd.action) \/ (ToWriter(cmd.action) /\ cmd.action # "UPLOAD")
    THEN /\ send_to_worker(c, cmd)
         /\ UNCHANGED <<hist, out, audit>>
    ELSE IF cmd.action = "UPLOAD"
    THEN \* {"status": "ready"} is sent; reader.readexactly(file_size) waits
         /\ cpc' = [cpc EXCEPT ![c] = "reading"]
         /\ ccmd' = [ccmd EXCEPT ![c] = cmd]
         /\ out' = [out EXCEPT ![c] = Append(@, Ready)]
         /\ UNCHANGED <<hist, cid, pending, nextId, reqOf, audit>>
    ELSE \* the error is sent; no log_event follows
         /\ hist' = [hist EXCEPT ![c] = Append(@,
               [cmd |-> cmd, id |-> 0, result |-> NoResult,
                resp |-> Response(cmd.action, [NoResult EXCEPT !.status = "error",
                                                                !.msg = "unknown"])])]
         /\ out' = [out EXCEPT ![c] = Append(@, Reply("error", "unknown"))]
         /\ UNCHANGED <<cpc, ccmd, cid, pending, nextId, reqOf, audit>>

\* handle_client: a command arrives on an idle connection and is read.
handle_client_command(c) ==
    /\ stop = "no"
    /\ MayRead(c)
    /\ rpos[c] = Len(sent[c])
    /\ ~eof[c]
    /\ nops < MaxOps
    /\ nops' = nops + 1
    /\ \E cmd \in Commands :
         /\ sent' = [sent EXCEPT ![c] = Append(@, cmd)]
         /\ handle_client_dispatch(c, cmd)
    /\ rpos' = [rpos EXCEPT ![c] = @ + 1]
    /\ UNCHANGED <<pollQ, nres, lost, hello, eof, stop>>
    /\ UNCHANGED workerVars
    /\ UNCHANGED wireVars
    /\ UNCHANGED <<clients, reset, rawRead>>

\* handle_client: msg = await async_recv_message(reader) returns the next
\* record of the client's stream.
handle_client_recv(c) ==
    /\ stop = "no"
    /\ MayRead(c)
    /\ ~reset[c]
    /\ rpos[c] < Len(sent[c])
    /\ rpos' = [rpos EXCEPT ![c] = @ + 1]
    /\ handle_client_dispatch(c, sent[c][rpos[c] + 1])
    /\ UNCHANGED <<nops, pollQ, nres, lost, sent, hello, eof, stop>>
    /\ UNCHANGED workerVars
    /\ UNCHANGED wireVars
    /\ UNCHANGED <<clients, reset, rawRead>>

\* handle_client, UPLOAD: the raw bytes have arrived; the request goes to the
\* Write Worker.
handle_client_upload(c) ==
    /\ stop = "no"
    /\ cpc[c] = "reading"
    /\ ~reset[c]
    /\ Len(ccmd[c].data) >= SizeOf(ccmd[c])
    /\ rawRead' = [rawRead EXCEPT ![c] = @ + Len(FileData(ccmd[c]))]
    /\ send_to_worker(c, ccmd[c])
    /\ UNCHANGED <<hist, nops, pollQ, nres, lost>>
    /\ UNCHANGED sessVars
    /\ UNCHANGED workerVars
    /\ UNCHANGED wireVars
    /\ UNCHANGED <<clients, audit, reset>>

\* The executor thread runs queue_req.put(request).
executor_put(c) ==
    /\ cpc[c] = "putting"
    /\ cpc' = [cpc EXCEPT ![c] = "awaiting"]
    /\ IF ToReader(ccmd[c].action)
       THEN /\ readReq' = Append(readReq, reqOf[cid[c]])
            /\ UNCHANGED writeReq
       ELSE /\ writeReq' = Append(writeReq, reqOf[cid[c]])
            /\ UNCHANGED readReq
    /\ UNCHANGED <<fs, denials, readResp, writeResp, rprog, wprog, reqOf, wlog, obs>>
    /\ UNCHANGED <<ccmd, cid, hist, pending, nextId, nops, pollQ, nres, lost>>
    /\ UNCHANGED procVars
    /\ UNCHANGED wireVars
    /\ UNCHANGED connVars
    /\ UNCHANGED sessVars

\* log_event: the event put on log_q.
log_event(action, path, status) == Event(action, path, status)

\* handle_client, the finally block: the session leaves the clients table,
\* DISCONNECT is logged and the connection closed.
handle_client_finally(c) ==
    /\ clients' = clients \ {c}
    /\ audit' = [audit EXCEPT ![c] = Append(@, log_event("DISCONNECT", <<>>, "ok"))]
    /\ cpc' = [cpc EXCEPT ![c] = "closed"]

\* The entry left in the table.
ForgetNothing(id) == pending

\* send_to_worker after "result = await future": del pending_requests[req_id].
Forget(id) == Restrict(pending, DOMAIN pending \ {id})

\* The future is done: send_to_worker returns the result, handle_client
\* writes the response and goes back to reading commands.
handle_client_result(c) ==
    /\ stop = "no"
    /\ cpc[c] = "awaiting"
    /\ cid[c] \in DOMAIN pending
    /\ pending[cid[c]].done
    /\ pending' = Forget(cid[c])
    /\ LET res == pending[cid[c]].result
       IN IF reset[c]
          THEN \* async_send_message raises ConnectionResetError
               /\ handle_client_finally(c)
               /\ UNCHANGED <<hist, out>>
          ELSE /\ hist' = [hist EXCEPT ![c] = Append(@,
                             [cmd |-> ccmd[c], id |-> cid[c], result |-> res,
                              resp |-> Response(ccmd[c].action, res)])]
               /\ out' = [out EXCEPT ![c] = Append(@, Response(ccmd[c].action, res))]
               /\ audit' = [audit EXCEPT ![c] = Append(@,
                              log_event(ccmd[c].action, PathOf(ccmd[c]), res.status))]
               /\ cpc' = [cpc EXCEPT ![c] = "idle"]
               /\ UNCHANGED clients
    /\ cid' = [cid EXCEPT ![c] = 0]
    /\ ccmd' = [ccmd EXCEPT ![c] = NoCmd]
    /\ UNCHANGED <<nextId, nops, pollQ, nres, lost, reqOf, sent, rpos, hello, eof, stop>>
    /\ UNCHANGED workerVars
    /\ UNCHANGED wireVars
    /\ UNCHANGED <<reset, rawRead>>

\* ---------------------------------------------------------------- poll loop
OtherQueue(q) == IF q = "read" THEN "write" ELSE "read"

RespQueue(q) == IF q = "read" THEN readResp ELSE writeResp

\* _try_get(resp_q) on an executor thread: q.get_nowait() takes the first
\* result of the queue, if there is one.
try_get(q) ==
    /\ readResp' = IF q = "read" /\ readResp # <<>> THEN Tail(readResp) ELSE readResp
    /\ writeResp' = IF q = "write" /\ writeResp # <<>> THEN Tail(writeResp) ELSE writeResp

\* A result set on the future of the oldest pending entry, whatever its id.
PendingOldest(res) ==
    IF DOMAIN pending = {} THEN {}
    ELSE {CHOOSE i \in DOMAIN pending : \A j \in DOMAIN pending : i <= j}

\* req_id = result.get("id"); if req_id in pending_requests: the entry whose
\* future the result is for.
PendingFor(res) == IF res.id \in DOMAIN pending THEN {res.id} ELSE {}

\* poll_response_queues, one turn of the loop on one queue: _try_get returns
\* within the 50 ms, its result (if any) is set on the future of its req_id,
\* and the loop turns to the other queue.
poll_result ==
    /\ stop = "no"
    /\ try_get(pollQ)
    /\ IF RespQueue(pollQ) = <<>>
       THEN UNCHANGED <<pending, nres, lost>>
       ELSE LET res == Head(RespQueue(pollQ))
            IN IF PendingFor(res) = {}
               THEN /\ lost' = lost \cup {res.id}
                    /\ UNCHANGED <<pending, nres>>
               ELSE LET id == CHOOSE i \in PendingFor(res) : TRUE
                    IN IF pending[id].done
                       THEN /\ lost' = lost \cup {res.id}
                            /\ UNCHANGED <<pending, nres>>
                       ELSE /\ pending' = [pending EXCEPT ![id] = [done |-> TRUE, result |-> res]]
                            /\ nres' = (id :> (IF id \in DOMAIN nres THEN nres[id] + 1 ELSE 1)) @@ nres
                            /\ UNCHANGED lost
    /\ pollQ' = OtherQueue(pollQ)
    /\ UNCHANGED <<fs, denials, readReq, writeReq, rprog, wprog, reqOf, wlog, obs>>
    /\ UNCHANGED <<cpc, ccmd, cid, hist, nextId, nops>>
    /\ UNCHANGED procVars
    /\ UNCHANGED wireVars
    /\ UNCHANGED connVars
    /\ UNCHANGED sessVars

\* asyncio.wait_for(..., timeout=0.05) expires before the executor's result
\* arrives: the wait is cancelled and TimeoutError swallowed.  A _try_get
\* that had not started never runs; one that had started still takes its
\* result from the queue, and what it returns is discarded.
poll_timeout ==
    /\ stop = "no"
    /\ \E started \in BOOLEAN :
         IF started /\ RespQueue(pollQ) # <<>>
         THEN /\ try_get(pollQ)
              /\ lost' = lost \cup {Head(RespQueue(pollQ)).id}
         ELSE UNCHANGED <<readResp, writeResp, lost>>
    /\ pollQ' = OtherQueue(pollQ)
    /\ UNCHANGED <<fs, denials, readReq, writeReq, rprog, wprog, reqOf, wlog, obs>>
    /\ UNCHANGED <<cpc, ccmd, cid, hist, pending, nextId, nops, nres>>
    /\ UNCHANGED procVars
    /\ UNCHANGED wireVars
    /\ UNCHANGED connVars
    /\ UNCHANGED sessVars

\* ------------------------------------------------------------ specification
Init ==
    /\ WorkerInit
    /\ DispInit
    /\ readReq = <<>>
    /\ writeReq = <<>>
    /\ reqOf = <<>>

Next ==
    \/ \E c \in Connections : handle_client_command(c)
    \/ \E c \in Connections : handle_client_upload(c)
    \/ \E c \in Connections : executor_put(c)
    \/ \E c \in Connections : handle_client_result(c)
    \/ poll_result
    \/ poll_timeout
    \/ reader_worker_get
    \/ reader_worker_step
    \/ writer_worker_get
    \/ writer_worker_step

Spec == Init /\ [][Next]_vars

\* ------------------------------------------------------------- one session
\* The connections a client opens.
SessionClients == {"c1"}

\* The handshake records a client may send.
Handshakes == {Hello(TRUE, "a"), Hello(TRUE, ""), Hello(FALSE, "")}

\* An UPLOAD that announces one byte more than its client writes.
Truncated == {[Cmd("UPLOAD", <<"x">>, Data1) EXCEPT !.size = Len(Data1) + 1]}

\* The record announces more raw bytes than follow it.
Short(cmd) == cmd.action = "UPLOAD" /\ cmd.hasSize /\ Len(cmd.data) < cmd.size

\* The commands a client may send.
SessionCommands ==
    {Cmd("LIST", <<"/">>, <<>>),
     Cmd("DOWNLOAD", <<"x">>, <<>>),
     Cmd("UPLOAD", <<"x">>, Data2),
     Cmd("DELETE", <<"x">>, <<>>),
     Cmd("FOO", <<"x">>, <<>>)} \cup Incomplete \cup Truncated

\* The client writes its handshake record.
client_hello(c) ==
    /\ ~hello[c].sent
    /\ ~eof[c]
    /\ \E h \in Handshakes : hello' = [hello EXCEPT ![c] = h]
    /\ UNCHANGED <<cpc, ccmd, cid, hist, pending, nextId, nops, pollQ, nres, lost,
                   sent, rpos, eof, out, stop, reqOf>>
    /\ UNCHANGED workerVars
    /\ UNCHANGED wireVars
    /\ UNCHANGED connVars

\* The client writes a command record, and the raw bytes of an UPLOAD,
\* without waiting for the answers to the ones before.  A client that has
\* written fewer bytes than it announced writes nothing after them.
client_send(c) ==
    /\ hello[c].sent
    /\ ~eof[c]
    /\ IF sent[c] = <<>> THEN TRUE ELSE ~Short(sent[c][Len(sent[c])])
    /\ nops < MaxOps
    /\ nops' = nops + 1
    /\ \E cmd \in SessionCommands : sent' = [sent EXCEPT ![c] = Append(@, cmd)]
    /\ UNCHANGED <<cpc, ccmd, cid, hist, pending, nextId, pollQ, nres, lost,
                   rpos, hello, eof, out, stop, reqOf>>
    /\ UNCHANGED workerVars
    /\ UNCHANGED wireVars
    /\ UNCHANGED connVars

\* The client closes its side of the connection.
client_close(c) ==
    /\ ~eof[c]
    /\ eof' = [eof EXCEPT ![c] = TRUE]
    /\ UNCHANGED <<cpc, ccmd, cid, hist, pending, nextId, nops, pollQ, nres, lost,
                   sent, rpos, hello, out, stop, reqOf>>
    /\ UNCHANGED workerVars
    /\ UNCHANGED wireVars
    /\ UNCHANGED connVars

\* The client's end goes away without closing: the connection is reset, and
\* the server's transport learns it.
client_reset(c) ==
    /\ ~eof[c]
    /\ eof' = [eof EXCEPT ![c] = TRUE]
    /\ reset' = [reset EXCEPT ![c] = TRUE]
    /\ UNCHANGED <<cpc, ccmd, cid, hist, pending, nextId, nops, pollQ, nres, lost,
                   sent, rpos, hello, out, stop, reqOf>>
    /\ UNCHANGED workerVars
    /\ UNCHANGED wireVars
    /\ UNCHANGED <<clients, audit, rawRead>>

\* if not msg or "name" not in msg
Rejected(h) == ~h.hasName

\* handle_client, the handshake: a record without "name" closes the
\* connection; any other enters the clients table, is logged as CONNECT and
\* is welcomed with {"status": "ok"}.  On a connection that was reset the
\* read or the send raises ConnectionResetError, outside the try statement.
handle_client_handshake(c) ==
    /\ stop = "no"
    /\ cpc[c] = "handshake"
    /\ hello[c].sent
    /\ IF Rejected(hello[c])
       THEN /\ cpc' = [cpc EXCEPT ![c] = "closed"]
            /\ UNCHANGED <<out, clients, audit>>
       ELSE IF reset[c]
       THEN /\ cpc' = [cpc EXCEPT ![c] = "closed"]
            /\ UNCHANGED out
            /\ \/ UNCHANGED <<clients, audit>>
               \/ /\ clients' = clients \cup {c}
                  /\ audit' = [audit EXCEPT ![c] = Append(@, log_event("CONNECT", <<>>, "ok"))]
       ELSE /\ cpc' = [cpc EXCEPT ![c] = "idle"]
            /\ clients' = clients \cup {c}
            /\ audit' = [audit EXCEPT ![c] = Append(@, log_event("CONNECT", <<>>, "ok"))]
            /\ out' = [out EXCEPT ![c] = Append(@, Welcome)]
    /\ UNCHANGED <<ccmd, cid, hist, pending, nextId, nops, pollQ, nres, lost,
                   sent, rpos, hello, eof, stop, reqOf>>
    /\ UNCHANGED workerVars
    /\ UNCHANGED wireVars
    /\ UNCHANGED <<reset, rawRead>>

\* handle_client: async_recv_message returns None at the end of the client's
\* stream; the handler closes the connection and ends, through the finally
\* block once the session exists.
handle_client_eof(c) ==
    /\ stop = "no"
    /\ eof[c]
    /\ \/ /\ cpc[c] = "handshake"
          /\ ~hello[c].sent
          /\ cpc' = [cpc EXCEPT ![c] = "closed"]
          /\ UNCHANGED <<clients, audit>>
       \/ /\ cpc[c] = "idle"
          /\ ~reset[c]
          /\ rpos[c] = Len(sent[c])
          /\ handle_client_finally(c)
    /\ UNCHANGED <<ccmd, cid, hist, pending, nextId, nops, pollQ, nres, lost,
                   sent, rpos, hello, eof, out, stop, reqOf>>
    /\ UNCHANGED workerVars
    /\ UNCHANGED wireVars
    /\ UNCHANGED <<reset, rawRead>>

\* handle_client: a read on a connection that was reset raises
\* ConnectionResetError, which the except clause swallows.
handle_client_reset(c) ==
    /\ stop = "no"
    /\ reset[c]
    /\ cpc[c] \in {"idle", "reading"}
    /\ handle_client_finally(c)
    /\ ccmd' = [ccmd EXCEPT ![c] = NoCmd]
    /\ UNCHANGED <<cid, hist, pending, nextId, nops, pollQ, nres, lost,
                   sent, rpos, hello, eof, out, stop, reqOf>>
    /\ UNCHANGED workerVars
    /\ UNCHANGED wireVars
    /\ UNCHANGED <<reset, rawRead>>

\* handle_client, UPLOAD: the stream ends before file_size bytes have come;
\* reader.readexactly raises IncompleteReadError, which the except clause
\* swallows.
handle_client_upload_eof(c) ==
    /\ stop = "no"
    /\ cpc[c] = "reading"
    /\ eof[c]
    /\ ~reset[c]
    /\ Len(ccmd[c].data) < SizeOf(ccmd[c])
    /\ rawRead' = [rawRead EXCEPT ![c] = @ + Len(ccmd[c].data)]
    /\ handle_client_finally(c)
    /\ ccmd' = [ccmd EXCEPT ![c] = NoCmd]
    /\ UNCHANGED <<cid, hist, pending, nextId, nops, pollQ, nres, lost,
                   sent, rpos, hello, eof, out, stop, reqOf>>
    /\ UNCHANGED workerVars
    /\ UNCHANGED wireVars
    /\ UNCHANGED reset

\* No client has written anything yet.
InitSession ==
    /\ WorkerInit
    /\ DispIdle
    /\ cpc = [c \in Connections |-> "handshake"]
    /\ hello = [c \in Connections |-> NoHello]
    /\ out = [c \in Connections |-> <<>>]
    /\ clients = {}
    /\ audit = [c \in Connections |-> <<>>]
    /\ readReq = <<>>
    /\ writeReq = <<>>
    /\ reqOf = <<>>

NextSession ==
    \/ \E c \in SessionClients : client_hello(c)
    \/ \E c \in SessionClients : client_send(c)
    \/ \E c \in SessionClients : client_close(c)
    \/ \E c \in SessionClients : client_reset(c)
    \/ \E c \in Connections : handle_client_handshake(c)
    \/ \E c \in Connections : handle_client_recv(c)
    \/ \E c \in Connections : handle_client_upload(c)
    \/ \E c \in Connections : handle_client_upload_eof(c)
    \/ \E c \in Connections : handle_client_eof(c)
    \/ \E c \in Connections : handle_client_reset(c)
    \/ \E c \in Connections : executor_put(c)
    \/ \E c \in Connections : handle_client_result(c)
    \/ poll_result
    \/ poll_timeout
    \/ reader_worker_get
    \/ reader_worker_step
    \/ writer_worker_get
    \/ writer_worker_step

SpecSession == InitSession /\ [][NextSession]_vars

\* ------------------------------------------------------- a stalled client
\* An UPLOAD whose client has announced one byte and written none.
Unsent == [Cmd("UPLOAD", <<"x">>, <<>>) EXCEPT !.size = 1]

\* The connection that stalls.
Staller == "c1"

\* handle_client waits in reader.readexactly(file_size) for bytes that have
\* not come, on a connection that is still open.
Stalled(c) == cpc[c] = "reading" /\ Len(ccmd[c].data) < SizeOf(ccmd[c]) /\ ~eof[c]

\* Every connection has passed the handshake; one has sent an UPLOAD record
\* and been answered "ready", and sends nothing more.
InitStall ==
    /\ WorkerInit
    /\ ccmd = [c \in Connections |-> IF c = Staller THEN Unsent ELSE NoCmd]
    /\ cid = [c \in Connections |-> 0]
    /\ hist = [c \in Connections |-> <<>>]
    /\ pending = <<>>
    /\ nextId = 1
    /\ nops = 1
    /\ pollQ = "read"
    /\ nres = <<>>
    /\ lost = {}
    /\ sent = [c \in Connections |-> IF c = Staller THEN <<Unsent>> ELSE <<>>]
    /\ rpos = [c \in Connections |-> IF c = Staller THEN 1 ELSE 0]
    /\ eof = [c \in Connections |-> FALSE]
    /\ stop = "no"
    /\ wire = <<>>
    /\ wclosed = FALSE
    /\ txlog = <<>>
    /\ rxlog = <<>>
    /\ reset = [c \in Connections |-> FALSE]
    /\ rawRead = [c \in Connections |-> 0]
    /\ cpc = [c \in Connections |-> IF c = Staller THEN "reading" ELSE "idle"]
    /\ hello = [c \in Connections |-> Hello(TRUE, "a")]
    /\ out = [c \in Connections |-> IF c = Staller THEN <<Welcome, Ready>> ELSE <<Welcome>>]
    /\ clients = Connections
    /\ audit = [c \in Connections |-> <<Event("CONNECT", <<>>, "ok")>>]
    /\ readReq = <<>>
    /\ writeReq = <<>>
    /\ reqOf = <<>>

SpecStall == InitStall /\ [][Next]_vars

\* ----------------------------------------------------------------- shutdown
\* shutdown_handler on SIGINT or SIGTERM: stop_workers puts None on the request
\* queue of each worker and then joins the worker processes.  The handler
\* runs on the thread of the event loop, which serves no connection from
\* then on; the threads of the executor go on running.
stop_workers ==
    /\ stop = "no"
    /\ stop' = "joining"
    /\ readReq' = Append(readReq, Sentinel)
    /\ writeReq' = Append(writeReq, Sentinel)
    /\ UNCHANGED <<fs, denials, readResp, writeResp, rprog, wprog, reqOf, wlog, obs>>
    /\ UNCHANGED <<cpc, ccmd, cid, hist, pending, nextId, nops, pollQ, nres, lost>>
    /\ UNCHANGED <<sent, rpos, hello, eof, out>>
    /\ UNCHANGED procVars
    /\ UNCHANGED wireVars
    /\ UNCHANGED connVars

\* stop_workers: proc.join(timeout=3) returns with the worker still alive,
\* and proc.terminate() ends it.
stop_workers_terminate ==
    /\ stop = "joining"
    /\ \/ rstat = "running" /\ rstat' = "terminated" /\ UNCHANGED wstat
       \/ wstat = "running" /\ wstat' = "terminated" /\ UNCHANGED rstat
    /\ UNCHANGED <<fs, denials, readReq, readResp, writeReq, writeResp, rprog, wprog,
                   reqOf, wlog, obs, nput>>
    /\ UNCHANGED dispVars
    /\ UNCHANGED wireVars
    /\ UNCHANGED connVars

\* The server with one client past its handshake, and the signal.
NextShutdown ==
    \/ \E c \in SessionClients : client_send(c)
    \/ \E c \in Connections : handle_client_recv(c)
    \/ \E c \in Connections : handle_client_upload(c)
    \/ \E c \in Connections : executor_put(c)
    \/ \E c \in Connections : handle_client_result(c)
    \/ poll_result
    \/ poll_timeout
    \/ reader_worker_get
    \/ reader_worker_step
    \/ writer_worker_get
    \/ writer_worker_step
    \/ stop_workers
    \/ stop_workers_terminate

SpecShutdown == Init /\ [][NextShutdown]_vars

\* ----------------------------------------------------------------- protocol
\* HEADER_SIZE, the bytes of the length prefix.
HEADER_SIZE == 4

\* Frames written on the stream in one run, and fields of a record.
MaxFrames == 2
MaxFields == 2

\* A byte of text: ord(ch) for the characters of the records.
Ord(ch) ==
    CASE ch = "a" -> 97
      [] ch = "s" -> 115
      [] ch = "\"" -> 34
      [] ch = "\\" -> 92

Chr(b) ==
    CASE b = 97 -> "a"
      [] b = 115 -> "s"
      [] b = 34 -> "\""
      [] b = 92 -> "\\"
      [] OTHER -> "?"

\* The values of a record's fields: a string or a number.
Text(s) == [t |-> "str", s |-> s, n |-> 0]
Num(n) == [t |-> "int", s |-> <<>>, n |-> n]
Field(key, val) == [key |-> key, val |-> val]

Keys == {<<"a">>, <<"s">>}
Values == {Text(<<>>), Text(<<"\"">>), Text(<<"\\", "a">>), Num(10)}

\* The records (dicts, in insertion order) of at most n fields.
RECURSIVE RecordsOf(_)
RecordsOf(n) ==
    IF n = 0 THEN {<<>>}
    ELSE LET shorter == RecordsOf(n - 1)
         IN shorter \cup
            {Append(r, Field(k, v)) :
               r \in {q \in shorter : Len(q) = n - 1}, k \in Keys, v \in Values}

DistinctKeys(r) == \A i, j \in 1..Len(r) : r[i].key = r[j].key => i = j

ProtoRecords == {r \in RecordsOf(MaxFields) : DistinctKeys(r)}

\* The records whose frame the peer may leave unfinished.
CutRecords == {<<>>, <<Field(<<"a">>, Num(10))>>}

\* A string written between quotes as it is, without escaping.
DumpsRaw(s) == <<34>> \o [i \in 1..Len(s) |-> Ord(s[i])] \o <<34>>

\* json.dumps of a string: a quote and a backslash are escaped.
RECURSIVE Escaped(_)
Escaped(s) ==
    IF s = <<>> THEN <<>>
    ELSE (IF Head(s) \in {"\"", "\\"} THEN <<92, Ord(Head(s))>> ELSE <<Ord(Head(s))>>)
         \o Escaped(Tail(s))

DumpsStr(s) == <<34>> \o Escaped(s) \o <<34>>

\* json.dumps of a number: its decimal digits.
RECURSIVE DumpsInt(_)
DumpsInt(n) ==
    IF n < 10 THEN <<48 + n>> ELSE DumpsInt(n \div 10) \o <<48 + (n % 10)>>

DumpsValue(v) == IF v.t = "str" THEN DumpsStr(v.s) ELSE DumpsInt(v.n)

\* "key": value, "key": value
RECURSIVE DumpsFields(_)
DumpsFields(r) ==
    IF r = <<>> THEN <<>>
    ELSE DumpsStr(r[1].key) \o <<58, 32>> \o DumpsValue(r[1].val)
         \o (IF Len(r) = 1 THEN <<>> ELSE <<44, 32>> \o DumpsFields(Tail(r)))

\* json.dumps(msg).encode("utf-8")
Dumps(r) == <<123>> \o DumpsFields(r) \o <<125>>

\* The result of a parsing step: whether it succeeded, the position after
\* what it read, and the string, number, value or record read.
Parsed(ok, next, s, n, val, rec) ==
    [ok |-> ok, next |-> next, s |-> s, n |-> n, val |-> val, rec |-> rec]

ParseFail == Parsed(FALSE, 0, <<>>, 0, Num(0), <<>>)

\* The characters of a string up to its closing quote, from position i.
RECURSIVE ParseStr(_, _, _)
ParseStr(b, i, acc) ==
    IF i > Len(b) THEN ParseFail
    ELSE IF b[i] = 34 THEN Parsed(TRUE, i + 1, acc, 0, Num(0), <<>>)
    ELSE IF b[i] = 92
    THEN IF i + 1 <= Len(b) /\ b[i + 1] \in {34, 92}
         THEN ParseStr(b, i + 2, Append(acc, Chr(b[i + 1])))
         ELSE ParseFail
    ELSE ParseStr(b, i + 1, Append(acc, Chr(b[i])))

\* The digits of a number from position i.
RECURSIVE ParseInt(_, _, _)
ParseInt(b, i, acc) ==
    IF i <= Len(b) /\ b[i] \in 48..57
    THEN ParseInt(b, i + 1, 10 * acc + (b[i] - 48))
    ELSE Parsed(TRUE, i, <<>>, acc, Num(0), <<>>)

ParseValue(b, i) ==
    IF i > Len(b) THEN ParseFail
    ELSE IF b[i] = 34
    THEN LET p == ParseStr(b, i + 1, <<>>)
         IN IF p.ok THEN Parsed(TRUE, p.next, <<>>, 0, Text(p.s), <<>>) ELSE ParseFail
    ELSE IF b[i] \in 48..57
    THEN LET p == ParseInt(b, i, 0)
         IN Parsed(TRUE, p.next, <<>>, 0, Num(p.n), <<>>)
    ELSE ParseFail

\* The fields of a record from position i, up to the closing brace.
RECURSIVE ParseFields(_, _, _)
ParseFields(b, i, acc) ==
    IF i > Len(b) \/ b[i] # 34 THEN ParseFail
    ELSE LET k == ParseStr(b, i + 1, <<>>)
         IN IF ~k.ok \/ k.next + 1 > Len(b) \/ b[k.next] # 58 \/ b[k.next + 1] # 32
            THEN ParseFail
            ELSE LET v == ParseValue(b, k.next + 2)
                     rec == Append(acc, Field(k.s, v.val))
                 IN IF ~v.ok \/ v.next > Len(b) THEN ParseFail
                    ELSE IF b[v.next] = 125
                    THEN Parsed(TRUE, v.next + 1, <<>>, 0, Num(0), rec)
                    ELSE IF v.next + 1 <= Len(b) /\ b[v.next] = 44 /\ b[v.next + 1] = 32
                    THEN ParseFields(b, v.next + 2, rec)
                    ELSE ParseFail

\* json.loads(raw_payload.decode("utf-8")): the record, or an exception.
Loads(b) ==
    IF Len(b) < 2 \/ b[1] # 123 THEN ParseFail
    ELSE IF b[2] = 125
    THEN (IF Len(b) = 2 THEN Parsed(TRUE, 3, <<>>, 0, Num(0), <<>>) ELSE ParseFail)
    ELSE LET p == ParseFields(b, 2, <<>>)
         IN IF p.ok /\ p.next = Len(b) + 1 THEN p ELSE ParseFail

\* struct.pack("!I", n) and struct.unpack("!I", header)[0]
Pack(n) == <<(n \div 16777216) % 256, (n \div 65536) % 256, (n \div 256) % 256, n % 256>>
Unpack(h) == h[1] * 16777216 + h[2] * 65536 + h[3] * 256 + h[4]

\* header + payload
Frame(r) == Pack(Len(Dumps(r))) \o Dumps(r)

\* async_send_message: the frame of a record is written on the stream.
async_send_message ==
    /\ ~wclosed
    /\ Len(txlog) < MaxFrames
    /\ \E r \in ProtoRecords :
         /\ wire' = wire \o Frame(r)
         /\ txlog' = Append(txlog, [kind |-> "record", rec |-> r])
    /\ UNCHANGED <<wclosed, rxlog>>
    /\ UNCHANGED <<workerVars, dispVars, reqOf>>
    /\ UNCHANGED connVars

\* The peer writes a frame whose payload has no byte.
peer_send_empty ==
    /\ ~wclosed
    /\ Len(txlog) < MaxFrames
    /\ wire' = wire \o Pack(0)
    /\ txlog' = Append(txlog, [kind |-> "empty", rec |-> <<>>])
    /\ UNCHANGED <<wclosed, rxlog>>
    /\ UNCHANGED <<workerVars, dispVars, reqOf>>
    /\ UNCHANGED connVars

\* The peer closes the stream, between two frames or inside one.
peer_close ==
    /\ ~wclosed
    /\ wclosed' = TRUE
    /\ \E r \in CutRecords : \E n \in 0..(Len(Frame(r)) - 1) :
         wire' = wire \o SubSeq(Frame(r), 1, n)
    /\ UNCHANGED <<txlog, rxlog>>
    /\ UNCHANGED <<workerVars, dispVars, reqOf>>
    /\ UNCHANGED connVars

\* What async_recv_message returns, the bytes that had arrived when it was
\* called and the bytes it consumed.
Received(kind, rec, rest) ==
    /\ rxlog' = Append(rxlog, [kind |-> kind, rec |-> rec,
                               avail |-> Len(wire), used |-> Len(wire) - Len(rest)])
    /\ wire' = rest

\* async_recv_message: async_recv_exact of the header and of the payload
\* (None when the stream ends before the bytes asked for), then json.loads.
async_recv_message ==
    /\ Len(rxlog) <= MaxFrames
    /\ Len(wire) >= HEADER_SIZE \/ wclosed
    /\ IF Len(wire) < HEADER_SIZE
       THEN Received("None", <<>>, <<>>)
       ELSE LET msg_len == Unpack(SubSeq(wire, 1, HEADER_SIZE))
                rest == SubSeq(wire, HEADER_SIZE + 1, Len(wire))
            IN /\ Len(rest) >= msg_len \/ wclosed
               /\ IF Len(rest) < msg_len
                  THEN Received("None", <<>>, <<>>)
                  ELSE IF msg_len = 0
                  THEN Received("None", <<>>, rest)
                  ELSE LET parsed == Loads(SubSeq(rest, 1, msg_len))
                           after == SubSeq(rest, msg_len + 1, Len(rest))
                       IN IF parsed.ok
                          THEN Received("record", parsed.rec, after)
                          ELSE Received("exception", <<>>, after)
    /\ UNCHANGED <<wclosed, txlog>>
    /\ UNCHANGED <<workerVars, dispVars, reqOf>>
    /\ UNCHANGED connVars

InitProtocol ==
    /\ WorkerInit
    /\ DispInit
    /\ readReq = <<>>
    /\ writeReq = <<>>
    /\ reqOf = <<>>

NextProtocol ==
    \/ async_send_message
    \/ peer_send_empty
    \/ peer_close
    \/ async_recv_message

SpecProtocol == InitProtocol /\ [][NextProtocol]_vars

\* ------------------------------------------------------------------ claims
Answered(c) == {k \in 1..Len(hist[c]) : hist[c][k].id # 0}

\* C1: the result send_to_worker returns to a connection is the response to
\* the request this connection enqueued: it carries the req_id the connection
\* generated and the action of its command, whatever the order in which the
\* results of several connections come back; a future is only ever resolved
\* with the result of its own req_id.
C1_ResultOfOwnRequest ==
    /\ \A c \in Connections : \A k \in Answered(c) :
         LET e == hist[c][k]
         IN /\ e.result.id = e.id
            /\ e.result.action = e.cmd.action
            /\ reqOf[e.id] = Request(e.id, e.cmd.action, e.cmd.path, e.cmd.data)
    /\ \A id \in DOMAIN pending : pending[id].done => pending[id].result.id = id
    /\ \A c, d \in Connections : c # d /\ cid[c] # 0 => cid[c] # cid[d]

\* Two connections had requests in flight on the same worker, and the one
\* that registered its request later was answered first.
C1_Witness ==
    \E c, d \in Connections :
        /\ c # d
        /\ cpc[d] = "awaiting"
        /\ Answered(c) # {}
        /\ \E k \in Answered(c) :
             /\ hist[c][k].id > cid[d]
             /\ ToReader(hist[c][k].cmd.action) = ToReader(ccmd[d].action)

\* C2: no result is removed from a response queue without resolving its
\* pending entry, also when the 50 ms wait on the executor poll expires.
C2_NoResultDropped == lost = {}

\* C3: a future is resolved at most once; a resolved entry is removed when
\* its connection resumes, so that the table holds exactly the entries of
\* the connections suspended in send_to_worker, each entry once, and is
\* empty once every command issued has been answered.
C3_PendingTable ==
    /\ \A id \in DOMAIN nres : nres[id] <= 1
    /\ \A id \in DOMAIN pending : pending[id].done <=> (id \in DOMAIN nres)
    /\ DOMAIN pending = {cid[c] : c \in {d \in Connections : cpc[d] \in {"putting", "awaiting"}}}
    /\ (\A c \in Connections : cpc[c] \in {"idle", "reading"}) => pending = <<>>

\* Every command issued has been answered, some through a worker.
C3_Witness ==
    /\ \A c \in Connections : cpc[c] = "idle" /\ Answered(c) # {}
    /\ \E id \in DOMAIN nres : nres[id] = 1
    /\ pending = <<>>

\* The mutations of one request are consecutive in the writer's order.
Contiguous(log) ==
    \A i, j, k \in 1..Len(log) :
        i < j /\ j < k /\ log[i].id = log[k].id => log[j].id = log[i].id

\* C4: the Write Worker has at most one request taken and not yet answered,
\* and the filesystem steps of two mutating operations never interleave: the result
\* of a request is put before the next request is taken.
C4_OneMutationAtATime ==
    /\ Cardinality(wprog) <= 1
    /\ Contiguous(wlog)

\* The writer is in the middle of an UPLOAD (the file is truncated, the data
\* not yet written) while another mutating request waits in its queue.
C4_Witness ==
    /\ writeReq # <<>>
    /\ \E op \in wprog : op.action = "UPLOAD" /\ op.pc = "write"
    /\ wlog # <<>>

\* C5: between the read and the removal of a CUT of p no other operation,
\* of the Write Worker or of the Read Worker, observes or acts on p.
C5_CutWindowUnobserved ==
    /\ \A id \in DOMAIN obs : ~obs[id].inCut
    /\ Cardinality(wprog) <= 1

\* The results the workers have put (SpecWorkers: nothing takes them).
Results == {readResp[i] : i \in 1..Len(readResp)} \cup {writeResp[i] : i \in 1..Len(writeResp)}

\* The canonical path a request resolves to.
Canonical(req) ==
    RealPath(Target(IF req.action = "LIST" THEN ListRel(req.path) ELSE req.path))

\* C6: an operation is rejected unless the canonical path is the canonical
\* shared root or a descendant of it: no operation on a path that resolves
\* outside the shared root is answered ok, and nothing outside the shared
\* root is listed, read, written or removed.
C6_OutsideRootRejected ==
    /\ \A res \in Results :
         ~Under(SharedFolder, Canonical(reqOf[res.id])) => res.status = "error"
    /\ \A p \in DOMAIN fs \cup DOMAIN InitTree :
         ~Under(SharedFolder, p) => NodeAt(fs, p) = NodeAt(InitTree, p)

\* C7: DELETE, UPLOAD and CUT of a path that is empty or made only of "/"
\* return an error and leave the shared root and its content in place.
C7_RootNeverATarget ==
    \A res \in Results :
        LET req == reqOf[res.id]
        IN req.action \in {"UPLOAD", "DELETE", "CUT"} /\ LStrip(req.path) = <<>>
             => /\ res.status = "error"
                /\ \A p \in DOMAIN InitTree :
                     Under(SharedFolder, p) => NodeAt(fs, p) = InitTree[p]

\* The mutations among the first n that touched p.
Touches(p, n) == {i \in 1..n : p \in wlog[i].touched}

\* What the mutations up to the n-th made of p, the last one deciding.
NodeFromLog(p, n) ==
    IF Touches(p, n) = {} THEN NodeAt(InitTree, p)
    ELSE LET m == wlog[CHOOSE i \in Touches(p, n) : \A j \in Touches(p, n) : j <= i]
         IN CASE m.step = "makedirs" -> Dir
              [] m.step = "truncate" -> File(<<>>)
              [] m.step = "write" -> File(reqOf[m.id].data)
              [] OTHER -> NoNode

\* No mutation after the from-th and up to the to-th touched p.
Quiet(p, from, to) == \A i \in (from + 1)..to : p \notin wlog[i].touched

StepIndex(id, step) == CHOOSE i \in 1..Len(wlog) : wlog[i].id = id /\ wlog[i].step = step

UploadData == {reqOf[i].data : i \in {j \in DOMAIN reqOf : reqOf[j].action = "UPLOAD"}}

\* C8: a file never holds bytes of two uploads mixed: its content is the
\* content it had at start, empty (just truncated) or the data of one
\* upload; and once the writes of two uploads to one path are made, the file
\* holds the data of the upload whose write came last in the writer's order.
C8_LastUploadWins ==
    /\ \A p \in DOMAIN fs :
         IsFile(fs, p) =>
            \/ fs[p].data \in UploadData \cup {<<>>}
            \/ p \in DOMAIN InitTree /\ fs[p] = InitTree[p]
    /\ \A p \in DOMAIN fs \cup UNION {wlog[i].touched : i \in 1..Len(wlog)} :
         LET last == Touches(p, Len(wlog))
         IN (last # {} /\ \E i \in last : wlog[i].step = "write" /\ \A j \in last : j <= i)
               => NodeAt(fs, p) = NodeFromLog(p, Len(wlog))

\* Two connections have an UPLOAD of different data to the same path in
\* flight at the same time, and the writer has made both writes.
C8_Witness ==
    \E c, d \in Connections :
        /\ c # d
        /\ cpc[c] = "awaiting" /\ cpc[d] = "awaiting"
        /\ ccmd[c].action = "UPLOAD" /\ ccmd[d].action = "UPLOAD"
        /\ ccmd[c].path = ccmd[d].path
        /\ ccmd[c].data # ccmd[d].data
        /\ \E i, j \in 1..Len(wlog) :
             /\ wlog[i].id = cid[c] /\ wlog[i].step = "write"
             /\ wlog[j].id = cid[d] /\ wlog[j].step = "write"

\* One session's UPLOAD(p, data) answered ok, followed by its DOWNLOAD(p)
\* answered ok.
UploadThenDownload(c, k) ==
    /\ k \in 1..(Len(hist[c]) - 1)
    /\ hist[c][k].cmd.action = "UPLOAD"
    /\ hist[c][k].resp.status = "ok"
    /\ hist[c][k + 1].cmd.action = "DOWNLOAD"
    /\ hist[c][k + 1].cmd.path = hist[c][k].cmd.path
    /\ hist[c][k + 1].resp.status = "ok"

\* C9 as stated: whenever one session performs UPLOAD(p, data) and then
\* DOWNLOAD(p), the bytes returned by the DOWNLOAD equal data.
C9_DownloadReturnsUpload ==
    \A c \in Connections : \A k \in 1..Len(hist[c]) :
        UploadThenDownload(c, k) => hist[c][k + 1].resp.raw = hist[c][k].cmd.data

\* C9 amended: whenever one session performs UPLOAD(p, data) and then
\* DOWNLOAD(p), both answered ok, and no other mutation of p took effect
\* between the write of that UPLOAD and the read of that DOWNLOAD, the bytes
\* returned (and the size announced) are those of data.
C9_DownloadReturnsUploadIfQuiet ==
    \A c \in Connections : \A k \in 1..Len(hist[c]) :
        (/\ UploadThenDownload(c, k)
         /\ Quiet(Target(hist[c][k].cmd.path),
                  StepIndex(hist[c][k].id, "write"), obs[hist[c][k + 1].id].last))
        => /\ hist[c][k + 1].resp.raw = hist[c][k].cmd.data
           /\ hist[c][k + 1].resp.size = Len(hist[c][k].cmd.data)

\* A session uploaded and downloaded with no mutation of the path in
\* between, while another session had mutated the same path before.
C9_Witness ==
    \E c \in Connections : \E k \in 1..Len(hist[c]) :
        /\ UploadThenDownload(c, k)
        /\ Quiet(Target(hist[c][k].cmd.path),
                 StepIndex(hist[c][k].id, "write"), obs[hist[c][k + 1].id].last)
        /\ \E i \in 1..Len(wlog) :
             wlog[i].id # hist[c][k].id /\ Target(hist[c][k].cmd.path) \in wlog[i].touched

\* The commands answered through a worker.
Done == UNION {{hist[c][k] : k \in Answered(c)} : c \in Connections}

\* A CUT of a regular file answers ok with the content and size the file had
\* when the CUT began, unless the OS refuses the read or the removal.
CutCarriesContent(e) ==
    LET was == NodeFromLog(Target(e.cmd.path), obs[e.id].first)
    IN e.cmd.action = "CUT" /\ was.kind = "file"
         => \/ /\ e.resp.status = "ok"
               /\ e.resp.raw = was.data
               /\ e.resp.size = Len(was.data)
            \/ e.resp.status = "error" /\ e.resp.msg = "permission"

\* f is a LIST of p's directory, or a DOWNLOAD of p, begun after the CUT e
\* removed p.
AfterCut(e, f) ==
    /\ e.cmd.action = "CUT" /\ e.resp.status = "ok"
    /\ obs[f.id].first >= StepIndex(e.id, "remove")
    /\ \/ f.cmd.action = "LIST" /\ f.resp.status = "ok"
          /\ Target(ListRel(f.cmd.path)) = DirName(Target(e.cmd.path))
       \/ f.cmd.action = "DOWNLOAD" /\ Target(f.cmd.path) = Target(e.cmd.path)

\* f shows that p is gone.
Gone(e, f) ==
    IF f.cmd.action = "LIST"
    THEN \A i \in 1..Len(f.resp.entries) :
            f.resp.entries[i].name # BaseName(Target(e.cmd.path))
    ELSE f.resp.status = "error" /\ f.resp.msg = "notfound"

\* C10 as stated: CUT(p) on a regular file with content C answers ok with C
\* and |C|; a LIST after it does not show p, a DOWNLOAD(p) after it fails
\* with not-found.
C10_CutThenGone ==
    /\ \A e \in Done : CutCarriesContent(e)
    /\ \A e, f \in Done : AfterCut(e, f) => Gone(e, f)

\* C10 amended: CUT(p) on a regular file with content C answers ok with C
\* and |C| unless the OS refuses the read or the removal; a LIST or a
\* DOWNLOAD(p) after it shows p gone provided no mutation made p again
\* between the removal and that LIST or DOWNLOAD.
C10_CutThenGoneIfQuiet ==
    /\ \A e \in Done : CutCarriesContent(e)
    /\ \A e, f \in Done :
         (/\ AfterCut(e, f)
          /\ Quiet(Target(e.cmd.path), StepIndex(e.id, "remove"), obs[f.id].last))
         => Gone(e, f)

\* A CUT of a file uploaded before was answered ok, and a LIST and a
\* DOWNLOAD after it were answered with no mutation of the path in between.
C10_Witness ==
    \E e, f, g \in Done :
        /\ AfterCut(e, f) /\ f.cmd.action = "LIST"
        /\ AfterCut(e, g) /\ g.cmd.action = "DOWNLOAD"
        /\ Quiet(Target(e.cmd.path), StepIndex(e.id, "remove"), obs[f.id].last)
        /\ Quiet(Target(e.cmd.path), StepIndex(e.id, "remove"), obs[g.id].last)
        /\ e.resp.raw = <<0>>

\* C11: for every DOWNLOAD and CUT response, raw bytes follow the control
\* message only when its status is ok, and the size it declares is the number
\* of raw bytes written after it, also when the Write Worker modifies the
\* file while the Read Worker serves the DOWNLOAD.
C11_SizeIsRawLength ==
    \A c \in Connections : \A k \in 1..Len(hist[c]) :
        hist[c][k].cmd.action \in {"DOWNLOAD", "CUT"}
        => /\ hist[c][k].resp.status # "ok" => hist[c][k].resp.raw = <<>>
           /\ hist[c][k].resp.status = "ok"
                => hist[c][k].resp.size = Len(hist[c][k].resp.raw)

\* The requests in flight: made by send_to_worker, which has not yet returned
\* their result to handle_client.
InFlight == DOMAIN pending

\* A final response, as against the {"status": "ready"} of an UPLOAD.
IsAnswer(m) == m.status # "ready"

\* The final responses written on the connection after the welcome.
Answers(c) == Tail(SelectSeq(out[c], IsAnswer))

\* C12: within one connection the command loop does not read command k+1
\* before the response to command k has been written: the connection has at
\* most one operation in flight, and its k-th response answers the k-th
\* command its client sent.
C12_InOrder ==
    \A c \in Connections :
        /\ rpos[c] <= Len(hist[c]) + 1
        /\ InFlight \subseteq {cid[d] : d \in Connections}
        /\ cpc[c] \in {"idle", "reading", "putting", "awaiting"}
             => /\ Len(Answers(c)) = Len(hist[c])
                /\ \A k \in 1..Len(hist[c]) :
                     /\ hist[c][k].cmd = sent[c][k]
                     /\ hist[c][k].resp = Answers(c)[k]
                     /\ hist[c][k].id # 0
                          => /\ reqOf[hist[c][k].id].action = sent[c][k].action
                             /\ hist[c][k].result.id = hist[c][k].id

\* The client has sent three commands: the first is answered, the second is
\* in flight, the third waits unread.
C12_Witness ==
    \E c \in Connections :
        /\ Len(sent[c]) = 3 /\ rpos[c] = 2 /\ Len(hist[c]) = 1
        /\ cpc[c] = "awaiting"
        /\ hist[c][1].id # 0

\* The position in out[c] of the response to the k-th command: after the
\* welcome, the responses before it and the "ready" of every UPLOAD so far.
OutIndex(c, k) ==
    1 + k + Cardinality({j \in 1..k : hist[c][j].cmd.action = "UPLOAD"})

\* C13: for every UPLOAD, {status: ready} is sent, then exactly size raw bytes
\* are read, only then the request carrying exactly those bytes is made for
\* the Write Worker, and the final reply is sent only after the worker's
\* result for that request has arrived.
C13_UploadSteps ==
    \A c \in Connections :
        /\ ccmd[c].action = "UPLOAD"
             => /\ out[c][Len(out[c])] = Ready
                /\ cpc[c] = "reading"
                     => /\ cid[c] = 0
                        /\ \A i \in InFlight :
                             reqOf[i].action = "UPLOAD"
                             => \E d \in Connections \ {c} : cid[d] = i
                /\ cpc[c] \in {"putting", "awaiting"}
                     => /\ Len(reqOf[cid[c]].data) = SizeOf(ccmd[c])
                        /\ reqOf[cid[c]].data = SubSeq(ccmd[c].data, 1, SizeOf(ccmd[c]))
                        /\ cpc[c] = "putting"
                             => \A i \in 1..Len(writeReq) : writeReq[i].id # cid[c]
        /\ cpc[c] \in {"idle", "reading", "putting", "awaiting"}
             => \A k \in 1..Len(hist[c]) :
                  hist[c][k].cmd.action = "UPLOAD"
                  => /\ hist[c][k].id \in DOMAIN nres
                     /\ hist[c][k].result.id = hist[c][k].id
                     /\ reqOf[hist[c][k].id].data
                          = SubSeq(hist[c][k].cmd.data, 1, SizeOf(hist[c][k].cmd))
                     /\ out[c][OutIndex(c, k) - 1] = Ready
                     /\ out[c][OutIndex(c, k)] = hist[c][k].resp
                     /\ hist[c][k].resp.status = hist[c][k].result.status

\* An UPLOAD of two bytes has been answered ok and its bytes are in the file.
C13_Witness ==
    \E c \in Connections : \E k \in 1..Len(hist[c]) :
        /\ hist[c][k].cmd.action = "UPLOAD"
        /\ hist[c][k].cmd.data = Data2
        /\ hist[c][k].resp.status = "ok"
        /\ reqOf[hist[c][k].id].data = Data2

\* The actions handle_client knows.
Known == {"LIST", "DOWNLOAD", "UPLOAD", "DELETE", "CUT"}

\* The step answers a command of c whose action is unknown.
AnswersUnknown(c) ==
    /\ Len(hist'[c]) = Len(hist[c]) + 1
    /\ hist'[c][Len(hist'[c])].cmd.action \notin Known

\* C14: a command with an unknown action is answered with status error,
\* sends nothing to any worker and leaves the connection open; the server is
\* left as it was, so that the next command is processed as if the unknown
\* one had not been sent.
C14_UnknownAction ==
    [][\A c \in Connections :
          AnswersUnknown(c)
          => /\ hist'[c][Len(hist'[c])].resp.status = "error"
             /\ out'[c] = Append(out[c], hist'[c][Len(hist'[c])].resp)
             /\ cpc[c] = "idle" /\ cpc'[c] = "idle"
             /\ UNCHANGED <<workerVars, reqOf, pending, nextId, cid, ccmd, pollQ>>]_vars

\* An unknown command was answered with an error, and the valid command sent
\* after it on the same connection was answered ok.
C14_Witness ==
    \E c \in Connections : \E k \in 1..(Len(hist[c]) - 1) :
        /\ hist[c][k].cmd.action \notin Known
        /\ hist[c][k].resp.status = "error"
        /\ hist[c][k + 1].cmd.action \in Known
        /\ hist[c][k + 1].resp.status = "ok"

\* The command lacks a required field.
LacksField(cmd) ==
    \/ cmd.action = "UPLOAD" /\ ~cmd.hasSize
    \/ cmd.action \in {"DOWNLOAD", "UPLOAD", "DELETE", "CUT"} /\ ~cmd.hasPath

\* C15: a command that lacks a required field (UPLOAD without size, or
\* DOWNLOAD, UPLOAD, DELETE or CUT without path) is answered with status
\* error, the connection remains open, and the shared tree is not modified.
C15_MissingFieldRejected ==
    \A c \in Connections : \A k \in 1..Len(hist[c]) :
        LacksField(hist[c][k].cmd)
        => /\ hist[c][k].resp.status = "error"
           /\ \A i \in 1..Len(wlog) : wlog[i].id # hist[c][k].id

\* C16: the handshake answers every handshake record with {status: ok} or
\* {status: error}, and a session reaches the command loop only when the
\* record carries a non-empty name.
C16_HandshakeAnswered ==
    \A c \in Connections :
        /\ hello[c].sent /\ cpc[c] # "handshake"
             => /\ out[c] # <<>>
                /\ out[c][1].status \in {"ok", "error"}
        /\ cpc[c] \in {"idle", "reading", "putting", "awaiting"}
             => hello[c].hasName /\ hello[c].name # ""
        /\ ~(hello[c].hasName /\ hello[c].name # "") => rpos[c] = 0

\* C17: decoding signals end-of-stream only when the peer closed before any
\* byte of the length prefix arrived; a stream that ends inside the length
\* prefix or inside the payload, and a complete frame (also one whose payload
\* has length 0), are never reported as end-of-stream.
C17_EndOfStreamOnlyAtBoundary ==
    \A k \in 1..Len(rxlog) : rxlog[k].kind = "None" => rxlog[k].avail = 0

\* The first k frames written are frames of records.
RecordsUpTo(k) == k <= Len(txlog) /\ \A j \in 1..k : txlog[j].kind = "record"

\* C18: decoding the bytes produced by encoding a record yields the record
\* and consumes exactly the 4-byte header plus the payload, so that records
\* written back to back are returned the same and in the same order.
C18_RoundTrip ==
    \A k \in 1..Len(rxlog) :
        RecordsUpTo(k)
        => /\ rxlog[k].kind = "record"
           /\ rxlog[k].rec = txlog[k].rec
           /\ rxlog[k].used = HEADER_SIZE + Len(Dumps(txlog[k].rec))
           /\ Unpack(Pack(Len(Dumps(txlog[k].rec)))) = rxlog[k].used - HEADER_SIZE

\* Two records written back to back, of two fields and with a quote and a
\* backslash in their strings, have both been decoded.
C18_Witness ==
    /\ Len(rxlog) = 2 /\ RecordsUpTo(2) /\ wire = <<>>
    /\ Len(rxlog[1].rec) = 2
    /\ \E i \in 1..2 : rxlog[1].rec[i].val = Text(<<"\"">>)
    /\ \E i \in 1..Len(rxlog[2].rec) : rxlog[2].rec[i].val = Text(<<"\\", "a">>)

\* The ids of the requests in a sequence of requests or results.
IdsIn(q) == {q[i].id : i \in 1..Len(q)} \ {0}

\* The requests a worker has taken from its queue and is no longer executing.
Served ==
    (DOMAIN reqOf \ {cid[c] : c \in {d \in Connections : cpc[d] = "putting"}})
    \ (IdsIn(readReq) \cup IdsIn(writeReq)
       \cup {op.id : op \in rprog} \cup {op.id : op \in wprog})

\* The results the workers have put, wherever they are now.
AllResults ==
    Results
    \cup {pending[i].result : i \in {j \in DOMAIN pending : pending[j].done}}
    \cup {e.result : e \in Done}

\* The mutation that makes the operation of a result a success.
Effected(r) ==
    \E i \in 1..Len(wlog) :
        /\ wlog[i].id = r.id
        /\ wlog[i].step = (CASE r.action = "UPLOAD" -> "write"
                             [] r.action = "CUT" -> "remove"
                             [] OTHER -> wlog[i].step)
        /\ r.action = "DELETE" => wlog[i].step \in {"remove", "rmtree"}

\* C19: for every request a worker takes from its queue other than the
\* shutdown sentinel it puts exactly one response, with the request's
\* correlation identifier; an operation that fails is answered with status
\* error, and the worker goes on serving: it stops only on the sentinel.
C19_OneResponsePerRequest ==
    /\ \A id \in DOMAIN nput : id \in DOMAIN reqOf /\ nput[id] = 1
    /\ \A id \in Served : id \in DOMAIN nput
    /\ \A r \in AllResults :
         /\ r.id \in DOMAIN nput
         /\ r.action = reqOf[r.id].action
         /\ r.status \in {"ok", "error"}
         /\ r.status = "ok" /\ ToWriter(r.action) => Effected(r)
    /\ stop = "no" => rstat = "running" /\ wstat = "running"
    /\ rstat = "exited" => \A i \in 1..Len(readReq) : readReq[i] # Sentinel
    /\ wstat = "exited" => \A i \in 1..Len(writeReq) : writeReq[i] # Sentinel

\* The Write Worker answered a request with an error of the operating system,
\* answered the next one ok, and then stopped on the sentinel.
C19_Witness ==
    /\ wstat = "exited"
    /\ \E c \in Connections : \E k \in 1..(Len(hist[c]) - 1) :
         /\ ToWriter(hist[c][k].cmd.action)
         /\ hist[c][k].result.status = "error"
         /\ hist[c][k].result.msg \in {"permission", "oserror", "internal"}
         /\ ToWriter(hist[c][k + 1].cmd.action)
         /\ hist[c][k + 1].result.status = "ok"

\* No operation request stands behind the sentinel in the queue.
SentinelLast(q) ==
    \A i, j \in 1..Len(q) : i < j /\ q[i] = Sentinel => q[j] = Sentinel

\* C20: on a termination signal the sentinel is put on each worker's request
\* queue after every in-flight request: no operation request is enqueued
\* behind it, and every request enqueued before it has been executed when
\* the worker exits.
C20_SentinelAfterRequests ==
    /\ SentinelLast(readReq)
    /\ SentinelLast(writeReq)
    /\ rstat = "exited" => IdsIn(readReq) = {}
    /\ wstat = "exited" => IdsIn(writeReq) = {}
\* ---------------------------------------------------------------- audit log
\* The events of a connection that report a command.
IsCommandEvent(e) == e.action \notin {"CONNECT", "DISCONNECT"}

CommandEvents(c) == SelectSeq(audit[c], IsCommandEvent)

\* How many events of a connection carry the action.
EventCount(c, action) ==
    Cardinality({k \in 1..Len(audit[c]) : audit[c][k].action = action})

\* The welcome has been written on the connection.
Welcomed(c) == out[c] # <<>>

\* C21: the dispatcher emits exactly one audit event for every command it
\* has answered, the error answer to an unknown action included, carrying
\* the action and the status of the response; and one CONNECT for a
\* connection it has welcomed and one DISCONNECT once that connection is
\* closed.
C21_OneEventPerOperation ==
    \A c \in Connections :
        /\ Len(CommandEvents(c)) = Len(hist[c])
        /\ \A k \in 1..Len(hist[c]) :
             k <= Len(CommandEvents(c)) =>
               /\ CommandEvents(c)[k].action = hist[c][k].cmd.action
               /\ CommandEvents(c)[k].status = hist[c][k].resp.status
        /\ Welcomed(c) => EventCount(c, "CONNECT") = 1
        /\ Welcomed(c) /\ cpc[c] = "closed" => EventCount(c, "DISCONNECT") = 1

\* ------------------------------------------------------------ live sessions
\* handle_client is inside its command loop on the connection.
InLoop(c) == cpc[c] \in {"idle", "reading", "putting", "awaiting"}

\* C22: a session created at the handshake is destroyed when its connection
\* is closed, whatever closed it: the clients table holds exactly the
\* sessions whose handler is still serving its connection, and a connection
\* that is closed has left the table and has, after its CONNECT, exactly one
\* DISCONNECT, as its last event.
C22_SessionDestroyed ==
    /\ clients = {c \in Connections : InLoop(c)}
    /\ \A c \in Connections :
         cpc[c] = "closed" /\ EventCount(c, "CONNECT") > 0 =>
           /\ EventCount(c, "CONNECT") = 1
           /\ EventCount(c, "DISCONNECT") = 1
           /\ audit[c][Len(audit[c])].action = "DISCONNECT"

\* ---------------------------------------------------------- a stalled client
\* C23: a connection that stalls in the middle of an UPLOAD, its raw bytes
\* never sent, blocks only its own command.  It holds no correlation id, no
\* entry of the pending table and no place in a queue or a worker; and while
\* it stalls every step another connection's command waits for can be
\* taken: the command is read, its raw bytes are read, its request is put
\* on the queue, the poll loop takes results, and a result that has come
\* is answered.
C23_StallBlocksOnlyItself ==
    \A c \in Connections :
        Stalled(c) =>
          /\ cid[c] = 0
          /\ ENABLED poll_result
          /\ \A d \in Connections \ {c} :
               /\ cpc[d] = "idle" /\ nops < MaxOps => ENABLED handle_client_command(d)
               /\ cpc[d] = "reading" /\ ~Stalled(d) => ENABLED handle_client_upload(d)
               /\ cpc[d] = "putting" => ENABLED executor_put(d)
               /\ (cpc[d] = "awaiting" /\ cid[d] \in DOMAIN pending /\ pending[cid[d]].done)
                    => ENABLED handle_client_result(d)
               /\ cpc[d] \in {"putting", "awaiting"} => cid[d] \in DOMAIN reqOf

\* While one connection stalls, two commands of another have been forwarded,
\* resolved and answered, an UPLOAD among them.
C23_Witness ==
    \E c \in Connections :
        /\ Stalled(c)
        /\ \E d \in Connections \ {c} :
             /\ Len(hist[d]) = 2
             /\ \A k \in 1..2 : hist[d][k].id > 0 /\ hist[d][k].result.id = hist[d][k].id
             /\ \E k \in 1..2 : hist[d][k].cmd.action = "UPLOAD" /\ hist[d][k].resp.status = "ok"

\* ------------------------------------------------------------ LIST after it
\* The last mutation the request made.
LastMutation(id) ==
    CHOOSE i \in 1..Len(wlog) :
        wlog[i].id = id /\ \A j \in 1..Len(wlog) : wlog[j].id = id => j <= i

\* e is an UPLOAD or a DELETE of a path answered ok, f a LIST of the
\* directory of that path answered ok, and no other mutation touched the
\* path between what e did to it and the listing.
ThenListed(e, f) ==
    /\ e.cmd.action \in {"UPLOAD", "DELETE"}
    /\ e.resp.status = "ok"
    /\ f.cmd.action = "LIST"
    /\ f.resp.status = "ok"
    /\ Target(ListRel(PathOf(f.cmd))) = DirName(Target(PathOf(e.cmd)))
    /\ Quiet(Target(PathOf(e.cmd)), LastMutation(e.id), obs[f.id].last)

\* The entries of a LIST response that carry the name.
Named(f, name) == {i \in 1..Len(f.resp.entries) : f.resp.entries[i].name = name}

\* C24: in one session, with no other mutation of the path in between, a
\* LIST of p's directory after an UPLOAD of data to p answered ok has an
\* entry with p's name, is_dir false and size the number of bytes uploaded;
\* and a LIST of p's directory after a DELETE of p answered ok has no entry
\* with p's name.
C24_ListShowsChange ==
    \A c \in Connections : \A k, j \in 1..Len(hist[c]) :
        LET e == hist[c][k]
            f == hist[c][j]
            name == BaseName(Target(PathOf(e.cmd)))
        IN (k < j /\ ThenListed(e, f)) =>
             IF e.cmd.action = "UPLOAD"
             THEN /\ Named(f, name) # {}
                  /\ \A i \in Named(f, name) :
                       /\ ~f.resp.entries[i].is_dir
                       /\ f.resp.entries[i].size = Len(e.cmd.data)
             ELSE Named(f, name) = {}

\* A session uploaded two bytes to a path that held one and then listed its
\* directory, no mutation of the path in between, after another session had
\* deleted the path.
C24_Witness ==
    \E c \in Connections : \E k, j \in 1..Len(hist[c]) :
        /\ k < j
        /\ ThenListed(hist[c][k], hist[c][j])
        /\ hist[c][k].cmd.action = "UPLOAD"
        /\ Len(hist[c][k].cmd.data) = 2
        /\ \E i \in 1..Len(wlog) :
             /\ wlog[i].step = "remove"
             /\ i < LastMutation(hist[c][k].id)
             /\ Target(PathOf(hist[c][k].cmd)) \in wlog[i].touched

\* ------------------------------------------------------ DOWNLOAD snapshots
\* C25: every DOWNLOAD answered ok returns a consistent snapshot of the
\* file: its bytes are the data of one UPLOAD to that path or the content
\* the path had at start, never the empty or partial content of an UPLOAD
\* in progress.
C25_DownloadIsSnapshot ==
    \A c \in Connections : \A k \in 1..Len(hist[c]) :
        LET e == hist[c][k]
            p == Target(PathOf(e.cmd))
        IN (e.cmd.action = "DOWNLOAD" /\ e.resp.status = "ok") =>
             \/ \E i \in DOMAIN reqOf :
                  /\ reqOf[i].action = "UPLOAD"
                  /\ Target(reqOf[i].path) = p
                  /\ e.resp.raw = reqOf[i].data
             \/ IsFile(InitTree, p) /\ e.resp.raw = InitTree[p].data

\* ------------------------------------------------------------ single writer
\* What waits on read_request_q or runs in the Read Worker is a LIST or a
\* DOWNLOAD; what waits on write_request_q or runs in the Write Worker is an
\* UPLOAD, a DELETE or a CUT.
Routed ==
    /\ \A i \in 1..Len(readReq) : readReq[i].action \in {"LIST", "DOWNLOAD"}
    /\ \A op \in rprog : op.action \in {"LIST", "DOWNLOAD"}
    /\ \A i \in 1..Len(writeReq) : writeReq[i].action \in {"UPLOAD", "DELETE", "CUT"}
    /\ \A op \in wprog : op.action \in {"UPLOAD", "DELETE", "CUT"}

InArrivalOrder(req, reqN, prog, progN, resp, respN) ==
    /\ Cardinality(progN) <= 1
    /\ Len(reqN) < Len(req) =>
         /\ reqN = Tail(req)
         /\ prog = {}
         /\ \/ \E op \in progN : op.id = Head(req).id
            \/ /\ Len(respN) = Len(resp) + 1
               /\ respN[Len(respN)].id = Head(req).id
    /\ (prog # {} /\ progN # {}) => {op.id : op \in progN} = {op.id : op \in prog}
    /\ (prog # {} /\ progN = {}) =>
         /\ Len(respN) = Len(resp) + 1
         /\ respN[Len(respN)].id \in {op.id : op \in prog}
    /\ Len(respN) > Len(resp) =>
         /\ Len(respN) = Len(resp) + 1
         /\ SubSeq(respN, 1, Len(resp)) = resp
         /\ \/ respN[Len(respN)].id \in {op.id : op \in prog}
            \/ prog = {} /\ req # <<>> /\ reqN = Tail(req) /\ respN[Len(respN)].id = Head(req).id

\* C27: each worker serves its inbound queue in arrival order: the request
\* put first is taken first, executed alone to its end, and its response is
\* put on the outbound queue before the next request is taken.
C27_ArrivalOrder ==
    [][/\ InArrivalOrder(readReq, readReq', rprog, rprog', readResp, readResp')
       /\ InArrivalOrder(writeReq, writeReq', wprog, wprog', writeResp, writeResp')]_vars

\* The Write Worker has changed the tree for one request while the request
\* put after it waits on the queue.
C27_Witness ==
    /\ Len(writeReq) = 1
    /\ \E op \in wprog :
         /\ op.id # writeReq[1].id
         /\ \E k \in 1..Len(wlog) : wlog[k].id = op.id

\* ------------------------------------------------- pending table and sessions
\* The open sessions: the connections whose handler is in its command loop.
OpenSessions == {c \in Connections : InLoop(c)}

\* The open sessions that own the entry of the pending table.
Owners(id) == {c \in OpenSessions : cid[c] = id}

\* C28: the pending table never holds more entries than there are open
\* client sessions and no session owns more than one of them: every entry
\* is the one entry of exactly one open session, so that an entry whose
\* session has ended, by a disconnect or an error while its operation was
\* in flight, is not in the table.
C28_PendingWithinSessions ==
    /\ Cardinality(DOMAIN pending) <= Cardinality(OpenSessions)
    /\ \A id \in DOMAIN pending : Cardinality(Owners(id)) = 1
    /\ \A c \in Connections : ~InLoop(c) => \A id \in DOMAIN pending : cid[c] # id

\* A connection was reset while its request was in flight: the result came,
\* no response to it was written, the session has ended and the table is
\* empty.
C28_Witness ==
    \E c \in Connections : \E id \in DOMAIN nres :
        /\ cpc[c] = "closed"
        /\ reset[c]
        /\ EventCount(c, "DISCONNECT") = 1
        /\ \A k \in 1..Len(hist[c]) : hist[c][k].id # id
        /\ id \notin lost
        /\ pending = <<>>

\* --------------------------------------------------- UPLOAD cut by the peer
\* The k-th record of the connection is an UPLOAD whose raw bytes stop short
\* of the size announced, and handle_client has read it.
CutShort(c, k) == k \in 1..rpos[c] /\ Short(sent[c][k])

\* The requests made for the first n records of a connection: one for each
\* record with a known action.
Forwarded(c, n) == {j \in 1..n : sent[c][j].action \in Known}

\* C29: when the peer closes during an UPLOAD before all the raw bytes it
\* announced have come, no request is made or enqueued for that UPLOAD, so
\* that the tree is not changed by it, no final reply to it is written,
\* the last thing written being "ready", and the handler can only end the
\* session, which it does through the finally block.
C29_ShortUploadEndsSession ==
    \A c \in SessionClients : \A k \in 1..Len(sent[c]) :
        CutShort(c, k) =>
          /\ cpc[c] \in {"reading", "closed"}
          /\ cid[c] = 0
          /\ nextId - 1 = Cardinality(Forwarded(c, k - 1))
          /\ \A i \in 1..Len(wlog) : wlog[i].id < nextId
          /\ Len(hist[c]) < k
          /\ out[c][Len(out[c])] = Ready
          /\ (cpc[c] = "reading" /\ eof[c] /\ ~reset[c]) =>
               /\ ENABLED handle_client_upload_eof(c)
               /\ ~ENABLED handle_client_upload(c)
          /\ cpc[c] = "closed" =>
               /\ c \notin clients
               /\ audit[c][Len(audit[c])].action = "DISCONNECT"

\* After an UPLOAD answered ok, the client announced two bytes for a second
\* UPLOAD, wrote one and closed: the session has ended and the file holds
\* the data of the first.
C29_Witness ==
    \E c \in SessionClients :
        /\ CutShort(c, 2)
        /\ eof[c] /\ ~reset[c]
        /\ cpc[c] = "closed"
        /\ Len(hist[c]) = 1
        /\ hist[c][1].cmd.action = "UPLOAD" /\ hist[c][1].resp.status = "ok"
        /\ rawRead[c] = Len(hist[c][1].cmd.data) + Len(sent[c][2].data)
        /\ NodeAt(fs, Target(PathOf(sent[c][2]))) = File(hist[c][1].cmd.data)

\* ------------------------------------------------------------ read position
\* The raw bytes the client has written after the first n records of the
\* connection.
RECURSIVE RawSent(_, _)
RawSent(c, n) ==
    IF n = 0 THEN 0 ELSE RawSent(c, n - 1) + Len(sent[c][n].data)

\* C30: the server never consumes as raw bytes more than the client wrote
\* as raw bytes after the records read so far, and once it has answered a
\* command its read position is at the start of the client's next record:
\* every raw byte written after the records read so far has been consumed.
\* For every UPLOAD answered, ok or error, the bytes announced were all
\* read into the request before the reply, so none is parsed as a record.
C30_ReadPositionAtFrame ==
    \A c \in Connections :
        /\ rawRead[c] <= RawSent(c, rpos[c])
        /\ cpc[c] \in {"idle", "putting", "awaiting"} => rawRead[c] = RawSent(c, rpos[c])
        /\ \A k \in 1..Len(hist[c]) :
             /\ hist[c][k].cmd = sent[c][k]
             /\ hist[c][k].cmd.action = "UPLOAD" =>
                  /\ reqOf[hist[c][k].id].data = hist[c][k].cmd.data
                  /\ Len(reqOf[hist[c][k].id].data) = SizeOf(hist[c][k].cmd)

\* An UPLOAD of one byte onto a directory was answered with an error, and
\* the record the client had written after its byte was read and answered
\* as the command it is.
C30_Witness ==
    \E c \in Connections :
        /\ Len(hist[c]) = 2
        /\ hist[c][1].cmd.action = "UPLOAD"
        /\ Len(hist[c][1].cmd.data) = 1
        /\ hist[c][1].resp.status = "error"
        /\ hist[c][2].cmd = sent[c][2]
        /\ hist[c][2].cmd.action = "LIST"
        /\ hist[c][2].resp.status = "ok"
        /\ rawRead[c] = 1

\* ------------------------------------------------------------ CUT all or nothing
\* The mutations the request made.
MutationsOf(id) == {i \in 1..Len(wlog) : wlog[i].id = id}

\* The CUT with this req_id removed its file.
CutRemoved(id) == \E i \in MutationsOf(id) : wlog[i].step = "remove"

\* The results of a CUT that wait on write_response_q or on a future.
CutResults ==
    {writeResp[i] : i \in {j \in 1..Len(writeResp) : writeResp[j].action = "CUT"}}
    \cup {pending[i].result :
            i \in {j \in DOMAIN pending : pending[j].done /\ pending[j].result.action = "CUT"}}

\* C31: a CUT response has status ok and carries the file content if and
\* only if that CUT removed the file.  A CUT answered ok made exactly one
\* mutation, the removal of a regular file, and its response carries the
\* content and the size that file had; a CUT answered error carries no
\* content and made no mutation, and the tree was not changed from its
\* first step to its last: no file is removed by a CUT that answers error.
\* A CUT still in execution has removed nothing.
C31_CutAllOrNothing ==
    /\ \A e \in Done :
         e.cmd.action = "CUT" =>
           /\ e.resp.status \in {"ok", "error"}
           /\ e.resp.status = "ok" <=> CutRemoved(e.id)
           /\ e.resp.status = "ok" =>
                /\ Cardinality(MutationsOf(e.id)) = 1
                /\ wlog[StepIndex(e.id, "remove")].old.kind = "file"
                /\ wlog[StepIndex(e.id, "remove")].touched = {Target(PathOf(e.cmd))}
                /\ e.resp.raw = wlog[StepIndex(e.id, "remove")].old.data
                /\ e.resp.size = Len(wlog[StepIndex(e.id, "remove")].old.data)
           /\ e.resp.status = "error" =>
                /\ e.resp.raw = <<>>
                /\ e.resp.size = 0
                /\ MutationsOf(e.id) = {}
                /\ obs[e.id].first = obs[e.id].last
    /\ \A r \in CutResults : r.status = "ok" <=> CutRemoved(r.id)
    /\ \A op \in wprog : op.action = "CUT" => MutationsOf(op.id) = {}

\* A CUT of a file was refused by the OS and answered error, the file still
\* there with its content; a second CUT of the same file was then answered
\* ok with that content, and the file is gone.
C31_Witness ==
    \E e, f \in Done :
        /\ e.cmd.action = "CUT" /\ f.cmd.action = "CUT"
        /\ e.cmd.path = f.cmd.path
        /\ e.resp.status = "error" /\ e.resp.msg = "permission"
        /\ f.resp.status = "ok"
        /\ e.id < f.id
        /\ f.resp.raw = InitTree[Target(PathOf(f.cmd))].data
        /\ ~Exists(fs, Target(PathOf(f.cmd)))

====
